---- MODULE Spec2Model ----
(***************************************************************************)
(* State-machine model of the B2B smart-marketing programs: the backend    *)
(* service (lead discovery, email sending, billing webhooks), the          *)
(* spreadsheet store of the command-line tool and its job scheduler.       *)
(* Strings are sequences of one-character strings, so that the string      *)
(* conversions of the code (lower, strip, rstrip, title, str, int) are     *)
(* computed and not assumed.                                               *)
(***************************************************************************)
EXTENDS Integers, Sequences, FiniteSets, TLC

VARIABLES
    users,      \* backend: user id -> User document
    leads,      \* backend: the leads collection, in insertion order
    usage,      \* backend: the usage_tracking collection
    tasks,      \* backend: background tasks scheduled and not yet run
    sessions,   \* payment provider: checkout sessions created, not yet completed
    smtp,       \* SMTP server: connections opened and messages accepted
    resp,       \* the last operation and what it returned
    nops,       \* number of operations issued so far (bounded)
    faults,     \* number of database faults still to come
    now,        \* the current calendar month
    sheet,      \* spreadsheet store: the data rows of the worksheet
    ret,        \* spreadsheet store: the last call and what it returned
    outbox,     \* command-line tool: the messages EmailSender delivered
    running,    \* scheduler: Scheduler.running
    thread,     \* scheduler: the background thread and where it is
    due,        \* scheduler: the registered jobs that are due
    stopCall,   \* scheduler: the caller of stop() and where it is
    started,    \* scheduler: job executions begun so far (bounded)
    calls,      \* the requests and tasks in progress, each at a database call;
                \* scheduler: the threads of earlier starts that are still alive
    analytics,  \* command-line tool: Analytics.data
    report,     \* command-line tool: the last Analytics or workflow call and its result
    assistant   \* command-line tool: where SmartMarketingAssistant.run is

backendVars ==
    <<users, leads, usage, tasks, sessions, smtp, resp, nops, faults, now>>

sheetVars == <<sheet, ret, outbox>>

schedVars == <<running, thread, due, stopCall, started>>

callVars == <<calls>>

statVars == <<analytics, report, assistant>>

vars == <<backendVars, sheetVars, schedVars, callVars, statVars>>

----------------------------------------------------------------------------
(* Bounds of the model *)

\* leads the leads collection holds at most
MaxStored == 3

----------------------------------------------------------------------------
(* Strings *)

None == <<"<None>">>

UpperChars == <<"A","B","C","D","E","F","G","H","I","J","K","L","M",
                "N","O","P","Q","R","S","T","U","V","W","X","Y","Z">>
LowerChars == <<"a","b","c","d","e","f","g","h","i","j","k","l","m",
                "n","o","p","q","r","s","t","u","v","w","x","y","z">>

IsUpper(c) == \E i \in DOMAIN UpperChars : UpperChars[i] = c
IsLower(c) == \E i \in DOMAIN LowerChars : LowerChars[i] = c
IsLetter(c) == IsUpper(c) \/ IsLower(c)

ToLower(c) ==
    IF IsUpper(c)
    THEN LowerChars[CHOOSE i \in DOMAIN UpperChars : UpperChars[i] = c]
    ELSE c

ToUpper(c) ==
    IF IsLower(c)
    THEN UpperChars[CHOOSE i \in DOMAIN LowerChars : LowerChars[i] = c]
    ELSE c

\* str.lower()
StrLower(s) == [i \in 1..Len(s) |-> ToLower(s[i])]

\* str.title(): the first letter of every run of letters in upper case, the
\* other letters in lower case
StrTitle(s) ==
    [i \in 1..Len(s) |->
        IF i = 1 \/ ~IsLetter(s[i-1]) THEN ToUpper(s[i]) ELSE ToLower(s[i])]

Min(a, b) == IF a <= b THEN a ELSE b

IsSpace(c) == c \in {" ", "\t", "\n", "\r"}

RECURSIVE LStrip(_)
LStrip(s) == IF s # <<>> /\ IsSpace(Head(s)) THEN LStrip(Tail(s)) ELSE s

RECURSIVE RStrip(_)
RStrip(s) ==
    IF s # <<>> /\ IsSpace(s[Len(s)]) THEN RStrip(SubSeq(s, 1, Len(s) - 1)) ELSE s

\* str.strip()
StrStrip(s) == RStrip(LStrip(s))

RECURSIVE RStripChar(_, _)
\* str.rstrip(c) for a single character c
RStripChar(s, c) ==
    IF s # <<>> /\ s[Len(s)] = c THEN RStripChar(SubSeq(s, 1, Len(s) - 1), c) ELSE s

\* sub in s
Contains(s, sub) ==
    \E i \in 1..(Len(s) - Len(sub) + 1) : SubSeq(s, i, i + Len(sub) - 1) = sub

StartsWith(s, prefix) ==
    Len(s) >= Len(prefix) /\ SubSeq(s, 1, Len(prefix)) = prefix

Digits == <<"0","1","2","3","4","5","6","7","8","9">>

RECURSIVE IntToStr(_)
\* str(n) for an integer n >= 0
IntToStr(n) ==
    IF n < 10 THEN <<Digits[n + 1]>>
    ELSE Append(IntToStr(n \div 10), Digits[(n % 10) + 1])

RECURSIVE StrToInt(_)
\* int(s) for a string of decimal digits
StrToInt(s) ==
    IF s = <<>> THEN 0
    ELSE 10 * StrToInt(SubSeq(s, 1, Len(s) - 1))
         + (CHOOSE d \in 0..9 : Digits[d + 1] = s[Len(s)])

\* seq[:n] for n >= 0
Take(seq, n) == SubSeq(seq, 1, Min(n, Len(seq)))

----------------------------------------------------------------------------
(* Backend: documents *)

Users == {"u1", "u2"}

\* the five settings EmailService requires
SmtpFields == {"smtp_host", "smtp_port", "smtp_username", "smtp_password",
               "smtp_from_email"}

\* models/user.py: defaults of a new User
NewUser ==
    [plan |-> "free", lead_limit |-> 50, leads_used |-> 0, is_admin |-> FALSE,
     serpapi_key |-> FALSE, hunter_api_key |-> FALSE, smtp_set |-> {}]

\* models/lead.py: a Lead document as discovery creates it
Lead(u, company_name, website, industry, contact_email) ==
    [user |-> u, company_name |-> company_name, website |-> website,
     industry |-> industry, contact_email |-> contact_email, status |-> "new"]

Tech == <<"t","e","c","h">>
Industries == {Tech}

Response(op, u, code, info) == [op |-> op, user |-> u, code |-> code, info |-> info]

----------------------------------------------------------------------------
(* Backend: POST /leads/discover *)

\* DiscoverLeadsRequest: max_leads: int = Field(default=10, ge=1, le=100)
ValidRequest(req) == req.max_leads >= 1 /\ req.max_leads <= 100

\* a mutant of QuotaExceeded: the comparison is off by one
QuotaExceededOffByOne(cu, req) ==
    cu.leads_used + req.max_leads >= cu.lead_limit

\* leads.py 67
QuotaExceeded(cu, req) ==
    cu.leads_used + req.max_leads > cu.lead_limit

\* leads.py 82: limits = {"free": 10, "pro": 100, "enterprise": 999999}
limits == [free |-> 10, pro |-> 100, enterprise |-> 999999]

\* leads.py 83: limits.get(current_user.plan, 10)
MaxAllowed(plan) == IF plan \in DOMAIN limits THEN limits[plan] ELSE 10

DiscoverLeads(u, req) ==
    /\ tasks = <<>>
    /\ UNCHANGED <<nops, faults, now>>
    /\ LET cu == users[u] IN
       IF ~ValidRequest(req) THEN
           /\ resp' = Response("discover", u, 422, req)
           /\ UNCHANGED <<users, leads, usage, tasks, sessions, smtp>>
       ELSE IF QuotaExceeded(cu, req) THEN
           /\ resp' = Response("discover", u, 402, req)
           /\ UNCHANGED <<users, leads, usage, tasks, sessions, smtp>>
       ELSE IF req.max_leads > MaxAllowed(cu.plan) THEN
           /\ resp' = Response("discover", u, 403, req)
           /\ UNCHANGED <<users, leads, usage, tasks, sessions, smtp>>
       ELSE
           /\ tasks' = Append(tasks, [user_id |-> u, request_data |-> req])
           /\ resp' = Response("discover", u, 200, req)
           /\ UNCHANGED <<users, leads, usage, sessions, smtp>>

----------------------------------------------------------------------------
(* Backend: the background discovery task *)

\* what the database does with one lead of a task: both writes succeed, the
\* insert of the lead raises, or the save of the user raises
Outcomes == {"ok", "insert_raises", "save_raises"}

RECURSIVE SaveLeadsAborting(_, _, _, _)
\* a mutant of SaveLeads: the first exception ends the loop
SaveLeadsAborting(items, outcome, i, st) ==
    IF i > Len(items) \/ outcome[i] = "insert_raises" THEN st
    ELSE LET next == [leads |-> Append(st.leads, items[i]),
                      saved |-> st.saved + 1,
                      mem   |-> st.mem + 1,
                      db    |-> IF outcome[i] = "ok" THEN st.mem + 1 ELSE st.db]
         IN IF outcome[i] = "ok"
            THEN SaveLeadsAborting(items, outcome, i + 1, next) ELSE next

RECURSIVE SaveLeads(_, _, _, _)
\* the per-lead loop: insert the lead, count it, increment the loaded user's
\* leads_used and save the user; an exception skips to the next lead.
\* st.mem is leads_used of the loaded user object, st.db the stored value.
SaveLeads(items, outcome, i, st) ==
    IF i > Len(items) THEN st
    ELSE IF outcome[i] = "insert_raises" THEN SaveLeads(items, outcome, i + 1, st)
    ELSE SaveLeads(items, outcome, i + 1,
            [leads |-> Append(st.leads, items[i]),
             saved |-> st.saved + 1,
             mem   |-> st.mem + 1,
             db    |-> IF outcome[i] = "ok" THEN st.mem + 1 ELSE st.db])

\* lead_discovery_service.py 162-184: the demo lead templates
demo_leads(industry) ==
    << [company_name  |-> <<"D","e","m","o"," ">> \o StrTitle(industry)
                            \o <<" ","C","o","m","p","a","n","y"," ","1">>,
        website       |-> <<"h","t","t","p","s",":","/","/","d","e","m","o">>
                            \o industry \o <<"1",".","c","o","m">>,
        contact_email |-> <<"c","o","n","t","a","c","t","@","d","e","m","o">>
                            \o industry \o <<"1",".","c","o","m">>],
       [company_name  |-> <<"S","a","m","p","l","e"," ">> \o StrTitle(industry)
                            \o <<" ","B","u","s","i","n","e","s","s"," ","2">>,
        website       |-> <<"h","t","t","p","s",":","/","/","s","a","m","p","l","e">>
                            \o industry \o <<"2",".","c","o","m">>,
        contact_email |-> <<"i","n","f","o","@","s","a","m","p","l","e">>
                            \o industry \o <<"2",".","c","o","m">>],
       [company_name  |-> <<"T","e","s","t"," ">> \o StrTitle(industry)
                            \o <<" ","C","o","r","p"," ","3">>,
        website       |-> <<"h","t","t","p","s",":","/","/","t","e","s","t">>
                            \o industry \o <<"3",".","c","o","m">>,
        contact_email |-> <<"h","e","l","l","o","@","t","e","s","t">>
                            \o industry \o <<"3",".","c","o","m">>] >>

\* lead_discovery_service.py 160: min(request_data.get('max_leads', 5), 5)
DemoMax(req) == Min(req.max_leads, 5)

\* lead_discovery_service.py 187-200: the Lead documents of demo_leads[:max_leads]
DemoItems(u, req) ==
    LET industry == req.target_industry
        chosen   == Take(demo_leads(industry), DemoMax(req))
    IN [i \in 1..Len(chosen) |->
           Lead(u, chosen[i].company_name, chosen[i].website, industry,
                chosen[i].contact_email)]

\* the businesses the search universe of the model holds: what the search
\* API reports and what the email finder answers for the site
Example1 == <<"h","t","t","p",":","/","/","E","x","a","m","p","l","e",".","c","o","m","/">>
Example2 == <<"h","t","t","p","s",":","/","/","w","w","w",".","e","x","a","m","p","l","e",".","c","o","m">>
Businesses ==
    { [company_name |-> <<"E","x">>, website |-> Example1, email |-> None],
      [company_name |-> <<"E","x">>, website |-> Example2,
       email |-> <<"a","@","e","x">>] }

RECURSIVE SeqsUpTo(_, _)
\* the sequences of distinct elements of S of length at most n
SeqsUpTo(S, n) ==
    IF n = 0 THEN {<<>>}
    ELSE LET shorter == SeqsUpTo(S, n - 1)
         IN shorter \cup
            {Append(p[1], p[2]) :
                p \in {p \in shorter \X S :
                          /\ Len(p[1]) = n - 1
                          /\ \A i \in DOMAIN p[1] : p[1][i] # p[2]}}

\* search_service.py 28-85: an error, or at most `limit` businesses
SearchOutcomes(limit) ==
    {[error |-> TRUE, businesses |-> <<>>]} \cup
    {[error |-> FALSE, businesses |-> b] :
        b \in SeqsUpTo(Businesses, Min(limit, MaxStored))}

\* lead_discovery_service.py 72-107: the Lead documents of the businesses found
SearchItems(u, user, req, businesses) ==
    [i \in 1..Len(businesses) |->
        Lead(u, businesses[i].company_name, businesses[i].website,
             req.target_industry,
             IF businesses[i].website # <<>> /\ user.hunter_api_key
             THEN businesses[i].email ELSE None)]

TaskInfo(path, req, clean) == [path |-> path, req |-> req, all_ok |-> clean]

\* what a finished task leaves in the log: the Lead documents it built and
\* what the database did with each of them
TaskReport(path, req, items, outcome) ==
    [path |-> path, req |-> req, items |-> items, outcome |-> outcome,
     all_ok |-> \A i \in 1..Len(items) : outcome[i] = "ok"]

\* discover_leads_task, and _create_demo_leads where the task falls back to it
DiscoverLeadsTask(k, search) ==
    LET t     == tasks[k]
        u     == t.user_id
        user  == users[u]
        req   == t.request_data
        st0   == [leads |-> leads, saved |-> 0, mem |-> user.leads_used,
                  db |-> user.leads_used]
        demo  == ~user.serpapi_key \/ search.error \/ search.businesses = <<>>
        path  == IF ~user.serpapi_key THEN "demo_no_key"
                 ELSE IF demo THEN "demo_fallback" ELSE "search"
    IN
    /\ tasks' = [i \in 1..(Len(tasks) - 1) |-> IF i < k THEN tasks[i] ELSE tasks[i + 1]]
    /\ UNCHANGED <<nops, usage, sessions, smtp, now>>
    /\ IF demo /\ req.target_industry = None THEN
           \* industry.title() raises on None: the task's handler logs it
           /\ resp' = Response("task", u, "failed",
                        TaskInfo(path, req, TRUE))
           /\ UNCHANGED <<users, leads, faults>>
       ELSE
           LET items == IF demo THEN DemoItems(u, req)
                        ELSE SearchItems(u, user, req, search.businesses)
           IN \E outcome \in [1..Len(items) -> Outcomes] :
                LET st == SaveLeads(items, outcome, 1, st0)
                    nf == Cardinality({i \in 1..Len(items) : outcome[i] # "ok"})
                IN
                /\ nf <= faults
                /\ faults' = faults - nf
                /\ Len(st.leads) <= MaxStored
                /\ leads' = st.leads
                /\ users' = [users EXCEPT ![u].leads_used = st.db]
                /\ resp' = Response("task", u, "completed",
                             TaskReport(path, req, items, outcome))

RunTask ==
    /\ \E k \in DOMAIN tasks :
        \E search \in SearchOutcomes(tasks[k].request_data.max_leads) :
            /\ (~users[tasks[k].user_id].serpapi_key =>
                    search = [error |-> TRUE, businesses |-> <<>>])
            /\ DiscoverLeadsTask(k, search)
    /\ UNCHANGED <<sheetVars, schedVars, callVars, statVars>>

----------------------------------------------------------------------------
(* Backend: the discovery specification *)

\* users as the program leaves them: a new account, an account with most of
\* its quota used, subscribers with their API keys set, and a plan name the
\* limits table does not know
Subscriber ==
    [NewUser EXCEPT !.plan = "pro", !.lead_limit = 500,
                    !.serpapi_key = TRUE, !.hunter_api_key = TRUE]

Profiles ==
    { NewUser,
      [NewUser EXCEPT !.leads_used = 45],
      Subscriber,
      [NewUser EXCEPT !.plan = "enterprise", !.lead_limit = 999999,
                      !.serpapi_key = TRUE],
      [NewUser EXCEPT !.plan = "starter"] }

MaxLeadsInputs == {1, 4, 50, 101}

\* target_industry is optional: a request without it carries None
DiscoverRequests ==
    [max_leads : MaxLeadsInputs, target_industry : Industries]
        \cup {[max_leads |-> 1, target_industry |-> None]}

NoResponse == Response("none", "u1", 0, <<>>)

\* the command-line tool before any of its objects is used: an empty
\* worksheet under its header row, and Scheduler.__init__ (scheduler.py 32-37)
NoReturn == [op |-> "none"]

NoThread == [pc |-> "none", batch |-> {}, job |-> None]

NoStop == [pc |-> "idle", elapsed |-> 0]

NoReport == [op |-> "none"]

NoRun == [pc |-> "idle", started |-> 0, leads |-> <<>>, results |-> <<>>]

\* analytics.py 52-69: Analytics._initialize_data, the data of a tool that has
\* recorded nothing (the two timestamps are left out)
_initialize_data ==
    [total_runs |-> 0, total_leads_discovered |-> 0,
     total_emails_generated |-> 0, total_portfolios_created |-> 0,
     total_duplicates_found |-> 0, industries |-> <<>>, runs |-> <<>>]

InitToolIdle ==
    /\ sheet = <<>>
    /\ ret = NoReturn
    /\ outbox = <<>>
    /\ running = FALSE
    /\ thread = NoThread
    /\ due = {}
    /\ stopCall = NoStop
    /\ started = 0
    /\ calls = <<>>
    /\ analytics = _initialize_data
    /\ report = NoReport
    /\ assistant = NoRun

InitBackendIdle ==
    /\ InitToolIdle
    /\ leads = <<>>
    /\ usage = <<>>
    /\ tasks = <<>>
    /\ sessions = <<>>
    /\ smtp = [connections |-> 0, delivered |-> <<>>]
    /\ resp = NoResponse
    /\ nops = 0
    /\ faults = 0
    /\ now = 1

InitDiscover ==
    /\ InitBackendIdle
    /\ users \in {f \in [Users -> Profiles] : f["u2"] = NewUser}

Discover ==
    /\ \E u \in Users, req \in DiscoverRequests : DiscoverLeads(u, req)
    /\ UNCHANGED <<sheetVars, schedVars, callVars, statVars>>

NextDiscover ==
    \/ Discover
    \/ RunTask

SpecDiscover == InitDiscover /\ [][NextDiscover]_vars

----------------------------------------------------------------------------
(* Claims about lead discovery *)

\* the per-request cap of a plan as the claim states it
ClaimPlanCap(plan) ==
    IF plan = "free" THEN 10
    ELSE IF plan = "pro" THEN 100
    ELSE IF plan = "enterprise" THEN 999999
    ELSE 10

\* C1: POST /leads/discover schedules the background task exactly when both
\* caps hold (leads_used + max_leads <= lead_limit and max_leads <= the
\* plan's cap, an unknown plan counting as 10); breaking the quota gives 402,
\* staying within the quota but over the plan's cap gives 403, and a rejected
\* request schedules no task and changes no user and no lead.
C1_DiscoverAdmission ==
    [][resp'.op = "discover" =>
        LET cu    == users[resp'.user]
            req   == resp'.info
            quota == cu.leads_used + req.max_leads <= cu.lead_limit
            cap   == req.max_leads <= ClaimPlanCap(cu.plan)
            valid == req.max_leads \in 1..100
        IN /\ (resp'.code = 200) <=> (valid /\ quota /\ cap)
           /\ (valid /\ ~quota) => resp'.code = 402
           /\ (valid /\ quota /\ ~cap) => resp'.code = 403
           /\ resp'.code = 200 =>
                /\ tasks' = Append(tasks, [user_id |-> resp'.user, request_data |-> req])
                /\ UNCHANGED <<users, leads>>
           /\ resp'.code # 200 => UNCHANGED <<users, leads, tasks>>
      ]_vars

\* C1 witness: max_leads = 50 on a free plan with lead_limit 50 and
\* leads_used 0 was rejected with 403 and nothing was scheduled
C1_Witness ==
    /\ resp.op = "discover"
    /\ resp.code = 403
    /\ resp.info.max_leads = 50
    /\ users[resp.user].plan = "free"
    /\ users[resp.user].lead_limit = 50
    /\ users[resp.user].leads_used = 0
    /\ tasks = <<>>

\* C2: for a user with no search-API key the discovery task creates exactly
\* min(max_leads, 5) leads and raises leads_used by that count, when every
\* insert succeeds.
C2_DemoLeadCount ==
    [][(/\ resp'.op = "task"
        /\ resp'.info.path = "demo_no_key"
        /\ resp'.info.req.target_industry # None
        /\ resp'.info.all_ok) =>
        LET n == Min(resp'.info.req.max_leads, 5) IN
        /\ Len(leads') = Len(leads) + n
        /\ users'[resp'.user].leads_used = users[resp'.user].leads_used + n
      ]_vars

StripWww(s) ==
    IF StartsWith(s, <<"w","w","w",".">>) THEN SubSeq(s, 5, Len(s)) ELSE s

\* a website as the specification normalizes it in the backend: lower case,
\* trimmed, no trailing slash, no leading "www."
BackendNormalize(s) == StripWww(RStripChar(StrStrip(StrLower(s)), "/"))

\* C7: the leads collection holds at most one lead per owner and
\* normalized website.
C7_OneLeadPerWebsite ==
    \A i, j \in DOMAIN leads :
        (i < j /\ leads[i].user = leads[j].user) =>
            BackendNormalize(leads[i].website) # BackendNormalize(leads[j].website)

----------------------------------------------------------------------------
(* Backend: sending an email to a lead *)

\* send operations issued in one behaviour
MaxSends == 3
\* calendar months a behaviour spans
MaxMonths == 2

\* email_service.py 33-34: all([...]) over the SMTP settings
SmtpConfigured(user) == SmtpFields \subseteq user.smtp_set

\* a mutant of HasContactEmail: the check of the lead's address is missing
HasContactEmailUnchecked(lead) == TRUE

\* email_service.py 41: the truth value of lead.contact_email
HasContactEmail(lead) == lead.contact_email # None /\ lead.contact_email # <<>>

\* what the SMTP session does: it succeeds, the connection is refused, the
\* login is rejected, or the server refuses the message
SmtpOutcomes == {"ok", "connect_fails", "auth_fails", "send_fails"}

\* what the database does after the message went out: both saves succeed,
\* the save of the lead raises, or the save of the usage row raises
SendDbOutcomes == {"ok", "lead_save_raises", "usage_save_raises"}

\* UsageTracking.find_one(user, month): the first matching row, 0 for none
FindUsage(rows, u, month) ==
    IF \E i \in DOMAIN rows : rows[i].user = u /\ rows[i].month = month
    THEN CHOOSE i \in DOMAIN rows :
            /\ rows[i].user = u /\ rows[i].month = month
            /\ \A j \in 1..(i - 1) : ~(rows[j].user = u /\ rows[j].month = month)
    ELSE 0

\* a mutant of track_email_sent: an existing row is saved without the increment
track_email_sent_no_increment(rows, u, month) ==
    IF FindUsage(rows, u, month) = 0
    THEN Append(rows, [user |-> u, month |-> month, emails_sent |-> 1])
    ELSE rows

\* email_service.py 141-160: the usage collection after track_email_sent
track_email_sent(rows, u, month) ==
    LET i == FindUsage(rows, u, month) IN
    IF i = 0
    THEN Append(rows, [user |-> u, month |-> month, emails_sent |-> 1])
    ELSE [rows EXCEPT ![i].emails_sent = @ + 1]

SendInfo(id, net, db) == [lead_id |-> id, smtp |-> net, db |-> db]

\* email_service.py 14-114: EmailService.send_email as a function of the
\* stored state st = [leads, usage, smtp, faults]; the result adds the value
\* of "success" and whether the database fault asked for can still happen
send_email(st, u, id, net, db) ==
    LET user == users[u]
        lead == st.leads[id]
        out(leads_, usage_, smtp_, faults_, success, possible) ==
            [leads |-> leads_, usage |-> usage_, smtp |-> smtp_,
             faults |-> faults_, success |-> success, possible |-> possible]
    IN
    IF ~SmtpConfigured(user) \/ ~HasContactEmail(lead) THEN
        out(st.leads, st.usage, st.smtp, st.faults, FALSE, TRUE)
    ELSE IF net # "ok" THEN
        out(st.leads, st.usage, [st.smtp EXCEPT !.connections = @ + 1],
            st.faults, FALSE, TRUE)
    ELSE
        out(IF db = "lead_save_raises" THEN st.leads
            ELSE [st.leads EXCEPT ![id].status = "contacted"],
            IF db = "ok" THEN track_email_sent(st.usage, u, now) ELSE st.usage,
            [st.smtp EXCEPT !.connections = @ + 1, !.delivered = Append(@, id)],
            IF db = "ok" THEN st.faults ELSE st.faults - 1,
            db = "ok",
            db = "ok" \/ st.faults > 0)

\* the stored state an email handler starts from
Stored0 == [leads |-> leads, usage |-> usage, smtp |-> smtp, faults |-> faults]

\* EmailService.send_email called by an endpoint that answers 200 for
\* success and 400 for a failure result
EmailService_send_email(u, id, net, db) ==
    LET r == send_email(Stored0, u, id, net, db)
        reached == SmtpConfigured(users[u]) /\ HasContactEmail(leads[id])
    IN
    /\ r.possible
    /\ leads' = r.leads
    /\ usage' = r.usage
    /\ smtp' = r.smtp
    /\ faults' = r.faults
    /\ resp' = Response("send", u, IF r.success THEN 200 ELSE 400,
                        SendInfo(id, IF reached THEN net ELSE "none",
                                 IF reached /\ net = "ok" THEN db ELSE "none"))

\* the place a deleted Lead document leaves in the collection: the ids of
\* the other leads stay what they were
DeletedLead == [Lead("", <<>>, None, None, None) EXCEPT !.status = "deleted"]

\* Lead.get(id) finds a document
Stored(id) == id \in DOMAIN leads /\ leads[id] # DeletedLead

\* a mutant of NotOwner: no caller is turned away
NotOwnerNever(lead, u, link_eq) == FALSE

\* leads.py 216, emails.py 34: lead.user != current_user.id compares a Link
\* with an ObjectId.  For another user's lead they differ; whether the
\* owner's own id compares equal is up to the ODM version (link_eq).
NotOwner(lead, u, link_eq) == lead.user # u \/ ~link_eq

\* emails.py 19-54: POST /api/emails/send
SendEmail(u, id, net, db, link_eq) ==
    /\ nops < MaxSends
    /\ nops' = nops + 1
    /\ UNCHANGED <<users, tasks, sessions, now>>
    /\ IF ~Stored(id) THEN
           /\ resp' = Response("send", u, 404, SendInfo(id, "none", "none"))
           /\ UNCHANGED <<leads, usage, smtp, faults>>
       ELSE IF NotOwner(leads[id], u, link_eq) THEN
           /\ resp' = Response("send", u, 403, SendInfo(id, "none", "none"))
           /\ UNCHANGED <<leads, usage, smtp, faults>>
       ELSE EmailService_send_email(u, id, net, db)

\* the calendar month changes
NextMonth ==
    /\ now < MaxMonths
    /\ now' = now + 1
    /\ resp' = Response("clock", "u1", 0, <<>>)
    /\ UNCHANGED <<users, leads, usage, tasks, sessions, smtp, nops, faults>>
    /\ UNCHANGED <<sheetVars, schedVars, callVars, statVars>>

\* SMTP settings as the settings endpoint leaves them: none, all of them, or
\* all but the sender address
SmtpSettings == {{}, SmtpFields, SmtpFields \ {"smtp_from_email"}}

\* the leads of the store: a demo lead and a found business of u1, the one
\* without a contact email, and a lead of u2
StoredLeads ==
    << DemoItems("u1", [max_leads |-> 1, target_industry |-> Tech])[1],
       Lead("u1", <<"E","x">>, Example1, Tech, None),
       Lead("u2", <<"E","x">>, Example2, Tech, <<"a","@","e","x">>) >>

InitEmail ==
    /\ users \in {f \in [Users -> {[NewUser EXCEPT !.smtp_set = c] : c \in SmtpSettings}] :
                    f["u2"].smtp_set = SmtpFields}
    /\ InitToolIdle
    /\ leads = StoredLeads
    /\ usage = <<>>
    /\ tasks = <<>>
    /\ sessions = <<>>
    /\ smtp = [connections |-> 0, delivered |-> <<>>]
    /\ resp = NoResponse
    /\ nops = 0
    /\ faults \in {0, 1}
    /\ now = 1

Send ==
    /\ \E u \in Users, id \in 1..(Len(leads) + 1), net \in SmtpOutcomes,
          db \in SendDbOutcomes, link_eq \in BOOLEAN :
            SendEmail(u, id, net, db, link_eq)
    /\ UNCHANGED <<sheetVars, schedVars, callVars, statVars>>

NextEmail ==
    \/ Send
    \/ NextMonth

SpecEmail == InitEmail /\ [][NextEmail]_vars

----------------------------------------------------------------------------
(* Claims about sending an email *)

RECURSIVE EmailsSent(_, _, _)
\* the emails_sent counter of user u for month m: what the usage rows of
\* (u, m) count together, 0 without a row
EmailsSent(rows, u, m) ==
    IF rows = <<>> THEN 0
    ELSE (IF Head(rows).user = u /\ Head(rows).month = m
          THEN Head(rows).emails_sent ELSE 0) + EmailsSent(Tail(rows), u, m)

\* C3: send_email, called for the caller's lead with no contact_email,
\* returns a failure, opens no SMTP connection and leaves the lead, the usage
\* rows and the users unchanged, whatever the user's SMTP configuration.
C3_NoEmailNoConnection ==
    [][(/\ resp'.op = "send"
        /\ resp'.info.lead_id \in DOMAIN leads
        /\ leads[resp'.info.lead_id].user = resp'.user
        /\ resp'.code # 403
        /\ leads[resp'.info.lead_id].contact_email = None) =>
            /\ resp'.code = 400
            /\ UNCHANGED <<smtp, leads, usage, users>>
      ]_vars

\* C3 witness: a user with complete SMTP settings asked to send to their own
\* lead that has no contact email, and got the failure
C3_Witness ==
    /\ resp.op = "send"
    /\ resp.code = 400
    /\ resp.info.lead_id \in DOMAIN leads
    /\ leads[resp.info.lead_id].user = resp.user
    /\ leads[resp.info.lead_id].contact_email = None
    /\ SmtpFields \subseteq users[resp.user].smtp_set
    /\ smtp.connections = 0

----------------------------------------------------------------------------
(* Backend: billing *)

\* checkout requests issued in one behaviour
MaxPurchases == 3

PricePro == <<"p","r","i","c","e","_","p","r","o","_","m","o","n","t","h","l","y">>
PriceEnterprise ==
    <<"p","r","i","c","e","_","e","n","t","e","r","p","r","i","s","e","_",
      "m","o","n","t","h","l","y">>
PriceProYearly == <<"p","r","i","c","e","_","p","r","o","_","y","e","a","r","l","y">>
PriceEnterpriseYearly ==
    <<"p","r","i","c","e","_","e","n","t","e","r","p","r","i","s","e","_",
      "y","e","a","r","l","y">>
PriceBasic == <<"p","r","i","c","e","_","b","a","s","i","c">>

\* billing.py 66-71
price_mapping == {PricePro, PriceEnterprise, PriceProYearly, PriceEnterpriseYearly}

\* dict.get(key, default)
Get(d, key, default) == IF key \in DOMAIN d THEN d[key] ELSE default

\* the request bodies of the model: a JSON object with or without the key
CheckoutRequests ==
    {[priceId |-> p] : p \in {PricePro, PriceEnterprise, PriceBasic}} \cup {<<>>}
BuyRequests == {[leadPack |-> 25], <<>>}

\* a checkout session at the payment provider: what the customer buys
\* (mode, price, pack) and the metadata the endpoint attached
Session(mode, buyer, price, pack, metadata) ==
    [mode |-> mode, buyer |-> buyer, price |-> price, pack |-> pack,
     metadata |-> metadata]

\* billing.py 49-95
create_checkout_session(u, request, stripe_ok) ==
    LET price_id == Get(request, "priceId", None) IN
    /\ nops < MaxPurchases
    /\ nops' = nops + 1
    /\ UNCHANGED <<users, leads, usage, tasks, smtp, faults, now>>
    /\ IF price_id = None THEN
           /\ resp' = Response("checkout", u, 400, request)
           /\ UNCHANGED sessions
       ELSE IF price_id \notin price_mapping \/ ~stripe_ok THEN
           \* the HTTPException(400) of line 74 is raised inside the try and
           \* re-raised as 500 by the handler of line 94
           /\ resp' = Response("checkout", u, 500, request)
           /\ UNCHANGED sessions
       ELSE
           /\ sessions' = Append(sessions,
                  Session("subscription", u, price_id, 0,
                          [user_id |-> u, plan_type |-> "subscription"]))
           /\ resp' = Response("checkout", u, 200, request)

\* billing.py 97-137
buy_leads(u, request, stripe_ok) ==
    LET lead_pack == Get(request, "leadPack", 100) IN
    /\ nops < MaxPurchases
    /\ nops' = nops + 1
    /\ UNCHANGED <<users, leads, usage, tasks, smtp, faults, now>>
    /\ IF ~stripe_ok THEN
           /\ resp' = Response("buy", u, 500, request)
           /\ UNCHANGED sessions
       ELSE
           /\ sessions' = Append(sessions,
                  Session("payment", u, None, lead_pack,
                          [user_id |-> u, lead_pack |-> IntToStr(lead_pack),
                           plan_type |-> "one_time_leads"]))
           /\ resp' = Response("buy", u, 200, request)

\* a mutant of lead_pack_of: the pack of the metadata is ignored
lead_pack_default(metadata) == 100

\* billing.py 196: int(session.metadata.get('lead_pack', 100))
lead_pack_of(metadata) ==
    IF "lead_pack" \in DOMAIN metadata THEN StrToInt(metadata.lead_pack) ELSE 100

\* billing.py 171-198: the User document after handle_checkout_completed
handle_checkout_completed(user, session) ==
    LET plan_type == Get(session.metadata, "plan_type", "")
        price_id  == StrLower(Get(session.metadata, "price_id", <<>>))
    IN
    IF plan_type = "subscription" THEN
        IF Contains(price_id, <<"p","r","o">>)
        THEN [user EXCEPT !.plan = "pro", !.lead_limit = 500]
        ELSE IF Contains(price_id, <<"e","n","t","e","r","p","r","i","s","e">>)
        THEN [user EXCEPT !.plan = "enterprise", !.lead_limit = 999999]
        ELSE user
    ELSE IF plan_type = "one_time_leads" THEN
        [user EXCEPT !.lead_limit = @ + lead_pack_of(session.metadata)]
    ELSE user

\* billing.py 139-169: the provider reports a completed checkout session
stripe_webhook(k) ==
    LET session == sessions[k]
        user_id == Get(session.metadata, "user_id", "")
    IN
    /\ sessions' = [i \in 1..(Len(sessions) - 1) |->
                        IF i < k THEN sessions[i] ELSE sessions[i + 1]]
    /\ users' = IF user_id \in DOMAIN users
                THEN [users EXCEPT ![user_id] = handle_checkout_completed(@, session)]
                ELSE users
    /\ resp' = Response("webhook", session.buyer, 200, session)
    /\ UNCHANGED <<leads, usage, tasks, smtp, nops, faults, now>>

InitBilling ==
    /\ InitBackendIdle
    /\ users \in [Users -> {NewUser, [NewUser EXCEPT !.leads_used = 45]}]

Checkout ==
    /\ \E u \in Users, request \in CheckoutRequests, stripe_ok \in BOOLEAN :
            create_checkout_session(u, request, stripe_ok)
    /\ UNCHANGED <<sheetVars, schedVars, callVars, statVars>>

Buy ==
    /\ \E u \in Users, request \in BuyRequests, stripe_ok \in BOOLEAN :
            buy_leads(u, request, stripe_ok)
    /\ UNCHANGED <<sheetVars, schedVars, callVars, statVars>>

Webhook ==
    /\ \E k \in DOMAIN sessions : stripe_webhook(k)
    /\ UNCHANGED <<sheetVars, schedVars, callVars, statVars>>

NextBilling ==
    \/ Checkout
    \/ Buy
    \/ Webhook

SpecBilling == InitBilling /\ [][NextBilling]_vars

----------------------------------------------------------------------------
(* Claims about billing *)

\* C5: a completed checkout session that create-checkout-session made
\* for a pro price sets the buyer's plan to 'pro' and lead_limit to 500.
C5_ProCheckoutUpgrades ==
    (/\ resp.op = "webhook"
     /\ resp.info.mode = "subscription"
     /\ resp.info.price \in {PricePro, PriceProYearly}) =>
        /\ users[resp.info.buyer].plan = "pro"
        /\ users[resp.info.buyer].lead_limit = 500

----------------------------------------------------------------------------
(* Command-line tool: the spreadsheet store *)

\* data rows the worksheet holds at most
MaxRows == 3

Example3 == <<"h","t","t","p","s",":","/","/","e","x","a","m","p","l","e",".","c","o","m">>
Example4 == <<"h","t","t","p",":","/","/","e","x","a","m","p","l","e",".","c","o","m">>

\* the leads handed to the store; a lead may come without a website
Websites == {<<>>, Example1, Example2, Example3, Example4}

LeadData == [company_name : {<<"E","x">>}, website : Websites]

\* sheets_manager.py 316, 320: website.lower().strip().rstrip('/')
SheetNormalize(website) == RStripChar(StrStrip(StrLower(website)), "/")

\* sheets_manager.py 293-328; read_ok tells whether the read of column B
\* succeeds, and a read that raises is answered with False (326-328)
is_duplicate(website, read_ok) ==
    IF website = <<>> THEN FALSE
    ELSE IF ~read_ok THEN FALSE
    ELSE \E i \in DOMAIN sheet :
            /\ sheet[i].website # <<>>
            /\ SheetNormalize(sheet[i].website) = SheetNormalize(website)

\* datetime.now().strftime(...) of sheets_manager.py 252: the day of the model
Today == <<"2","0","2","6","-","1","1","-","0","3">>

\* sheets_manager.py 243-255: the row appended for a lead, its cells named
\* in the order of the columns A to K
Row(lead_data) ==
    [company_name     |-> Get(lead_data, "company_name", <<>>),
     website          |-> Get(lead_data, "website", <<>>),
     contact_email    |-> Get(lead_data, "contact_email", <<>>),
     industry         |-> Get(lead_data, "industry", <<>>),
     services_matched |-> <<>>,
     email_subject    |-> Get(lead_data, "email_subject", <<>>),
     email_body       |-> Get(lead_data, "email_body", <<>>),
     portfolio_path   |-> Get(lead_data, "portfolio_path", <<>>),
     date_added       |-> Today,
     status           |-> <<"N","e","w">>,
     notes            |-> <<>>]

Returned(lead_data, read_ok, write_ok, success, duplicate) ==
    [op |-> "add_lead", lead_data |-> lead_data, read_ok |-> read_ok,
     write_ok |-> write_ok, success |-> success, is_duplicate |-> duplicate]

\* sheets_manager.py 220-291
add_lead(lead_data, read_ok, write_ok) ==
    IF is_duplicate(lead_data.website, read_ok) THEN
        /\ ret' = Returned(lead_data, read_ok, write_ok, FALSE, TRUE)
        /\ UNCHANGED sheet
    ELSE IF ~write_ok THEN
        /\ ret' = Returned(lead_data, read_ok, write_ok, FALSE, FALSE)
        /\ UNCHANGED sheet
    ELSE
        /\ Len(sheet) < MaxRows
        /\ sheet' = Append(sheet, Row(lead_data))
        /\ ret' = Returned(lead_data, read_ok, write_ok, TRUE, FALSE)

InitSheets ==
    /\ InitBackendIdle
    /\ users = [u \in Users |-> NewUser]

AddLead ==
    /\ \E lead_data \in LeadData, read_ok \in BOOLEAN, write_ok \in BOOLEAN :
            add_lead(lead_data, read_ok, write_ok)
    /\ UNCHANGED <<backendVars, schedVars, outbox, callVars, statVars>>

NextSheets == AddLead

SpecSheets == InitSheets /\ [][NextSheets]_vars

----------------------------------------------------------------------------
(* Claims about the spreadsheet store *)

\* C8: whatever add_lead calls were made and whichever of their remote
\* reads and writes failed, no two data rows of the worksheet have the same
\* non-empty website after the store's normalization.
C8_NoDuplicateRows ==
    \A i, j \in DOMAIN sheet :
        (/\ i < j
         /\ sheet[i].website # <<>>
         /\ sheet[j].website # <<>>) =>
            SheetNormalize(sheet[i].website) # SheetNormalize(sheet[j].website)

\* the first "www." of a string removed
RemoveWww(s) ==
    IF Contains(s, <<"w","w","w",".">>)
    THEN LET i == CHOOSE i \in 1..Len(s) :
                    /\ SubSeq(s, i, i + 3) = <<"w","w","w",".">>
                    /\ \A j \in 1..(i - 1) : SubSeq(s, j, j + 3) # <<"w","w","w",".">>
         IN SubSeq(s, 1, i - 1) \o SubSeq(s, i + 4, Len(s))
    ELSE s

\* a URL as the specification normalizes it: lower case, trimmed, no
\* trailing slash, no "www."
UrlKey(website) == RemoveWww(RStripChar(StrStrip(StrLower(website)), "/"))

\* the URLs the specification calls duplicates: those with the same
\* normalized value, and the pair it gives as its example
SameUrl(a, b) == UrlKey(a) = UrlKey(b) \/ {a, b} = {Example1, Example2}

\* C9: add_lead of a lead whose URL the specification calls a duplicate of
\* the URL of a row already in the worksheet is rejected as a duplicate and
\* writes nothing, the remote read and write both working.
C9_SameUrlRejected ==
    [][(/\ ret'.op = "add_lead"
        /\ ret'.read_ok
        /\ ret'.write_ok
        /\ ret'.lead_data.website # <<>>
        /\ \E i \in DOMAIN sheet :
                SameUrl(sheet[i].website, ret'.lead_data.website)) =>
            /\ ret'.is_duplicate
            /\ sheet' = sheet
      ]_vars

----------------------------------------------------------------------------
(* Command-line tool: the scheduler *)

\* job executions begun in one behaviour
MaxStarted == 3

\* scheduler.py 166: thread.join(timeout=5)
JoinTimeout == 5

\* the jobs registered with schedule_weekly, schedule_daily, schedule_interval
Jobs == {"j1", "j2"}

\* the time of a registered job comes
BecomeDue(j) ==
    /\ j \notin due
    /\ started + Cardinality(due) < MaxStarted
    /\ due' = due \cup {j}
    /\ UNCHANGED <<running, thread, stopCall, started>>

\* scheduler.py 132-158; run_all executes every registered job in the
\* calling thread.  The caller starts the scheduler when no thread of an
\* earlier start is alive.
start(run_pending_immediately) ==
    IF running THEN
        UNCHANGED <<running, thread, due, stopCall, started>>
    ELSE
        /\ thread.pc \in {"none", "done"}
        /\ stopCall.pc # "joining"
        /\ running' = TRUE
        /\ IF run_pending_immediately
           THEN /\ started + Cardinality(Jobs) <= MaxStarted
                /\ started' = started + Cardinality(Jobs)
                /\ due' = {}
           ELSE UNCHANGED <<started, due>>
        /\ thread' = [pc |-> "check", batch |-> {}, job |-> None]
        /\ stopCall' = NoStop

\* scheduler.py 148: the test of `while self.running`, and 149-150: the
\* entry of schedule.run_pending(), which collects the jobs due now
LoopTest ==
    /\ thread.pc = "check"
    /\ IF running
       THEN thread' = [thread EXCEPT !.pc = "pending", !.batch = due]
       ELSE thread' = [thread EXCEPT !.pc = "done"]
    /\ UNCHANGED <<running, due, stopCall, started>>

\* scheduler.py 150: run_pending() runs the jobs it collected one after the
\* other, without a look at self.running; job_wrapper begins (53-54)
JobBegins(j) ==
    /\ thread.pc = "pending"
    /\ j \in thread.batch
    /\ started < MaxStarted
    /\ thread' = [thread EXCEPT !.pc = "job", !.job = j, !.batch = @ \ {j}]
    /\ started' = started + 1
    /\ UNCHANGED <<running, due, stopCall>>

\* job_wrapper returns (55-58) and the job is scheduled for its next time
JobEnds ==
    /\ thread.pc = "job"
    /\ thread' = [thread EXCEPT !.pc = "pending", !.job = None]
    /\ due' = due \ {thread.job}
    /\ UNCHANGED <<running, stopCall, started>>

\* scheduler.py 150-151: run_pending() returns and the loop sleeps a second
Sleep ==
    /\ thread.pc = "pending"
    /\ thread.batch = {}
    /\ thread' = [thread EXCEPT !.pc = "sleep"]
    /\ UNCHANGED <<running, due, stopCall, started>>

Wake ==
    /\ thread.pc = "sleep"
    /\ thread' = [thread EXCEPT !.pc = "check"]
    /\ UNCHANGED <<running, due, stopCall, started>>

\* scheduler.py 160-166: stop() clears the flag and joins the thread
stop ==
    /\ stopCall.pc # "joining"
    /\ running' = FALSE
    /\ stopCall' = IF thread.pc = "none"
                   THEN [pc |-> "returned", elapsed |-> 0]
                   ELSE [pc |-> "joining", elapsed |-> 0]
    /\ UNCHANGED <<thread, due, started>>

\* a second passes while stop() waits in join: the thread is in a job, which
\* takes the time it takes, or in time.sleep(1), which is then over
Tick ==
    /\ stopCall.pc = "joining"
    /\ thread.pc \in {"job", "sleep"}
    /\ stopCall.elapsed < JoinTimeout
    /\ stopCall' = [stopCall EXCEPT !.elapsed = @ + 1]
    /\ thread' = IF thread.pc = "sleep" THEN [thread EXCEPT !.pc = "check"] ELSE thread
    /\ UNCHANGED <<running, due, started>>

\* scheduler.py 166-168: join returns, the thread having ended or the
\* timeout having passed, and stop() returns
StopReturns ==
    /\ stopCall.pc = "joining"
    /\ thread.pc = "done" \/ stopCall.elapsed = JoinTimeout
    /\ stopCall' = [stopCall EXCEPT !.pc = "returned"]
    /\ UNCHANGED <<running, thread, due, started>>

InitSched ==
    /\ InitBackendIdle
    /\ users = [u \in Users |-> NewUser]

Due == (\E j \in Jobs : BecomeDue(j)) /\ UNCHANGED <<backendVars, sheetVars, callVars, statVars>>

Start ==
    /\ \E run_pending_immediately \in BOOLEAN : start(run_pending_immediately)
    /\ UNCHANGED <<backendVars, sheetVars, callVars, statVars>>

Stop == stop /\ UNCHANGED <<backendVars, sheetVars, callVars, statVars>>

Loop ==
    /\ \/ LoopTest
       \/ \E j \in Jobs : JobBegins(j)
       \/ JobEnds
       \/ Sleep
       \/ Wake
    /\ UNCHANGED <<backendVars, sheetVars, callVars, statVars>>

Join == (Tick \/ StopReturns) /\ UNCHANGED <<backendVars, sheetVars, callVars, statVars>>

NextSched ==
    \/ Due
    \/ Start
    \/ Stop
    \/ Loop
    \/ Join

SpecSched == InitSched /\ [][NextSched]_vars

----------------------------------------------------------------------------
(* Claims about the scheduler *)

\* C10: stop() returns within its join timeout with running = False, and
\* once it has returned the background loop begins no further job, whatever
\* was executing or due when stop() was called.
C10_NoJobAfterStop ==
    [][/\ (stopCall'.pc = "returned" /\ stopCall.pc # "returned") =>
            (~running' /\ stopCall'.elapsed <= JoinTimeout)
       /\ (stopCall.pc = "returned" /\ stopCall'.pc = "returned") =>
            ~(thread.pc = "pending" /\ thread'.pc = "job")
      ]_vars

----------------------------------------------------------------------------
(* Command-line tool: lead status in the spreadsheet store *)

\* sheets_manager.py 36-48
HEADERS ==
    <<"Company Name", "Website", "Contact Email", "Industry", "Services Matched",
      "Email Draft Subject", "Email Draft Body", "Portfolio File Path",
      "Date Added", "Status", "Notes">>

\* the cells of a row in the order add_lead writes them (243-255)
Fields ==
    <<"company_name", "website", "contact_email", "industry", "services_matched",
      "email_subject", "email_body", "portfolio_path", "date_added", "status",
      "notes">>

\* the column letters of the range A:K
Columns == <<"A", "B", "C", "D", "E", "F", "G", "H", "I", "J", "K">>

IndexOf(seq, x) == CHOOSE i \in DOMAIN seq : seq[i] = x

\* the cell of a row that a column letter addresses
CellField(letter) == Fields[IndexOf(Columns, letter)]

\* sheets_manager.py 330-365: the rows as dictionaries keyed by the header
\* row; a read that raises, or a sheet without data rows, gives []
get_all_leads(s, read_ok) ==
    IF ~read_ok THEN <<>>
    ELSE [i \in DOMAIN s |->
            [h \in {HEADERS[k] : k \in DOMAIN HEADERS} |->
                s[i][Fields[IndexOf(HEADERS, h)]]]]

\* sheets_manager.py 389-396: the first data row whose website matches, 0 for none
FindRow(s, website) ==
    LET match(i) == /\ s[i].website # <<>>
                    /\ SheetNormalize(s[i].website) = SheetNormalize(website)
    IN IF \E i \in DOMAIN s : match(i)
       THEN CHOOSE i \in DOMAIN s : match(i) /\ \A j \in 1..(i - 1) : ~match(j)
       ELSE 0

\* sheets_manager.py 402-414: the cells the batch update writes
WriteStatus(row, status, notes) ==
    LET r == IF status # <<>> THEN [row EXCEPT ![CellField("I")] = status] ELSE row
    IN IF notes # <<>> THEN [r EXCEPT ![CellField("J")] = notes] ELSE r

\* sheets_manager.py 367-432: the sheet after the call and the value returned
update_lead_status(s, website, status, notes, read_ok, write_ok) ==
    LET i == FindRow(s, website) IN
    IF ~read_ok \/ i = 0 \/ ~write_ok
    THEN [sheet |-> s, result |-> FALSE]
    ELSE [sheet |-> [s EXCEPT ![i] = WriteStatus(@, status, notes)],
          result |-> TRUE]

Sent == <<"S","e","n","t">>
Replied == <<"R","e","p","l","i","e","d">>

\* the leads of an outreach campaign: found businesses with their contacts
OutreachLeads ==
    { [company_name |-> <<"E","x">>, website |-> Example3,
       contact_email |-> <<"a","@","e","x">>],
      [company_name |-> <<"E","x">>, website |-> Example4,
       contact_email |-> <<"b","@","e","x">>] }

AddOutreachLead ==
    /\ \E lead_data \in OutreachLeads, read_ok \in BOOLEAN :
            add_lead(lead_data, read_ok, TRUE)
    /\ UNCHANGED <<backendVars, schedVars, outbox, callVars, statVars>>

UpdateLeadStatus ==
    /\ \E website \in {Example1, Example3, Example4}, status \in {Sent, Replied},
          notes \in {<<>>, <<"o","k">>}, read_ok \in BOOLEAN, write_ok \in BOOLEAN :
            LET r == update_lead_status(sheet, website, status, notes, read_ok, write_ok)
            IN /\ sheet' = r.sheet
               /\ ret' = [op |-> "update_lead_status", website |-> website,
                          status |-> status, notes |-> notes, result |-> r.result]
    /\ UNCHANGED <<backendVars, schedVars, outbox, callVars, statVars>>

NextStatus ==
    \/ AddOutreachLead
    \/ UpdateLeadStatus

SpecStatus == InitSheets /\ [][NextStatus]_vars

----------------------------------------------------------------------------
(* Claims about lead status in the spreadsheet store *)

\* C11: update_lead_status that returns true has written the status into
\* the Status column and the notes, when given, into the Notes column of the
\* matching row, as a following get_all_leads reports them, and has changed
\* no other cell; one that returns false has written nothing.
C11_StatusColumnWritten ==
    [][ret'.op = "update_lead_status" =>
         LET before == get_all_leads(sheet, TRUE)
             after  == get_all_leads(sheet', TRUE)
             i      == FindRow(sheet, ret'.website)
         IN IF ret'.result
            THEN /\ after[i]["Status"] = ret'.status
                 /\ ret'.notes # <<>> => after[i]["Notes"] = ret'.notes
                 /\ \A j \in DOMAIN before :
                        \A h \in DOMAIN before[j] :
                            (j # i \/ h \notin {"Status", "Notes"}) =>
                                after[j][h] = before[j][h]
            ELSE sheet' = sheet
      ]_vars

----------------------------------------------------------------------------
(* Command-line tool: sending the emails of the worksheet *)

\* messages the outbox holds at most
MaxOutbox == 2

\* what happens to one selected lead: whether EmailSender.send_email
\* succeeds, and whether the remote calls of the status update work
SendOutcomes == [sent : BOOLEAN, sheet_ok : BOOLEAN]

\* cli.py 411-414: the rows a send-all run selects, by their place in `leads`
Unsent(all_leads) ==
    LET unsent(i) == /\ Get(all_leads[i], "Status", None) # Sent
                     /\ StrStrip(Get(all_leads[i], "Contact Email", <<>>)) # <<>>
        F[i \in 0..Len(all_leads)] ==
            IF i = 0 THEN <<>>
            ELSE IF unsent(i) THEN Append(F[i - 1], i) ELSE F[i - 1]
    IN F[Len(all_leads)]

\* cli.py 452-463 and 376-379: one lead is sent to and, if that succeeded,
\* marked 'Sent'; st holds the sheet, the outbox and the two counters
SendTo(all_leads, i, outcome, st) ==
    IF outcome.sent
    THEN LET r == update_lead_status(st.sheet, Get(all_leads[i], "Website", <<>>),
                                     Sent, <<>>, outcome.sheet_ok, outcome.sheet_ok)
         IN [sheet  |-> r.sheet,
             outbox |-> Append(st.outbox, [row |-> i, updated |-> r.result]),
             sent_count   |-> st.sent_count + 1,
             failed_count |-> st.failed_count]
    ELSE [st EXCEPT !.failed_count = @ + 1]

RECURSIVE SendLoop(_, _, _, _, _)
\* cli.py 436-470: the loop over unsent_leads
SendLoop(all_leads, unsent_leads, outcome, k, st) ==
    IF k > Len(unsent_leads) THEN st
    ELSE SendLoop(all_leads, unsent_leads, outcome, k + 1,
                  SendTo(all_leads, unsent_leads[k], outcome[k], st))

SendReturn(op, selected, st) ==
    [op |-> op, selected |-> selected, sent_count |-> st.sent_count,
     failed_count |-> st.failed_count]

\* cli.py 395-484
handle_send_all_emails(read_ok, confirm) ==
    LET all_leads    == get_all_leads(sheet, read_ok)
        unsent_leads == Unsent(all_leads)
        st0 == [sheet |-> sheet, outbox |-> outbox, sent_count |-> 0,
                failed_count |-> 0]
    IN IF all_leads = <<>> \/ unsent_leads = <<>> \/ ~confirm THEN
           /\ ret' = SendReturn("send_all", <<>>, st0)
           /\ UNCHANGED <<sheet, outbox>>
       ELSE \E outcome \in [DOMAIN unsent_leads -> SendOutcomes] :
              LET st == SendLoop(all_leads, unsent_leads, outcome, 1, st0) IN
              /\ Len(outbox) < MaxOutbox
              /\ Len(st.outbox) <= MaxOutbox
              /\ sheet' = st.sheet
              /\ outbox' = st.outbox
              /\ ret' = SendReturn("send_all", unsent_leads, st)

\* cli.py 323-392; the check for an earlier send reads the key 'status',
\* which the dictionaries of get_all_leads do not have
handle_send_single_email(lead_index, read_ok, send_anyway, outcome) ==
    LET all_leads == get_all_leads(sheet, read_ok)
        i   == lead_index + 1
        st0 == [sheet |-> sheet, outbox |-> outbox, sent_count |-> 0,
                failed_count |-> 0]
    IN IF \/ all_leads = <<>>
          \/ lead_index >= Len(all_leads)
          \/ StrStrip(Get(all_leads[i], "Contact Email", <<>>)) = <<>>
          \/ (Get(all_leads[i], "status", None) = Sent /\ ~send_anyway)
       THEN /\ ret' = SendReturn("send_single", <<>>, st0)
            /\ UNCHANGED <<sheet, outbox>>
       ELSE LET st == SendTo(all_leads, i, outcome, st0) IN
            /\ Len(outbox) < MaxOutbox
            /\ Len(st.outbox) <= MaxOutbox
            /\ sheet' = st.sheet
            /\ outbox' = st.outbox
            /\ ret' = SendReturn("send_single", <<i>>, st)

SendAll ==
    /\ \E read_ok \in BOOLEAN, confirm \in BOOLEAN :
            handle_send_all_emails(read_ok, confirm)
    /\ UNCHANGED <<backendVars, schedVars, callVars, statVars>>

SendSingle ==
    /\ \E lead_index \in 0..MaxRows, read_ok \in BOOLEAN, send_anyway \in {FALSE},
          outcome \in SendOutcomes :
            handle_send_single_email(lead_index, read_ok, send_anyway, outcome)
    /\ UNCHANGED <<backendVars, schedVars, callVars, statVars>>

NextOutreach ==
    \/ AddOutreachLead
    \/ SendAll
    \/ SendSingle

SpecOutreach == InitSheets /\ [][NextOutreach]_vars

----------------------------------------------------------------------------
(* Claims about sending the emails of the worksheet *)

\* C12: a lead that was sent to successfully, and whose status update
\* succeeded, is sent to by no later run: the outbox holds no message to a
\* row after a message to that row whose status update succeeded.
C12_NoSecondEmail ==
    \A a, b \in DOMAIN outbox :
        (a < b /\ outbox[a].row = outbox[b].row) => ~outbox[a].updated

----------------------------------------------------------------------------
(* Backend: the endpoints that address a lead by its id *)

\* requests issued to the lead endpoints in one behaviour
MaxRequests == 2

\* a lead_id that PydanticObjectId rejects; the other ids are the places of
\* the collection, the one after the last being an id no lead ever had
Malformed == 0

LeadIds == Malformed..(Len(leads) + 1)

LeadInfo(id, body) == [lead_id |-> id, body |-> body]

\* leads.py 211-217: the lead is looked up and the caller is checked; a
\* well-formed id without a document makes Lead.get return None, and
\* lead.user on None raises: the server answers 500
Lookup(u, id, link_eq) ==
    IF id = Malformed THEN 404
    ELSE IF ~Stored(id) THEN 500
    ELSE IF NotOwner(leads[id], u, link_eq) THEN 403
    ELSE 200

\* emails.py 26-38 and 79-91: the same with a check for None
LookupChecked(u, id, link_eq) ==
    IF ~Stored(id) THEN 404
    ELSE IF NotOwner(leads[id], u, link_eq) THEN 403
    ELSE 200

\* the frame of a lead request: it is counted, and nothing but the leads,
\* the mail and the response can change
LeadRequest ==
    /\ nops < MaxRequests
    /\ nops' = nops + 1
    /\ UNCHANGED <<users, tasks, sessions, now>>

\* leads.py 204-231
get_lead(u, id, link_eq) ==
    LET code == Lookup(u, id, link_eq) IN
    /\ LeadRequest
    /\ resp' = Response("get", u, code,
                        LeadInfo(id, IF code = 200 THEN leads[id] ELSE None))
    /\ UNCHANGED <<leads, usage, smtp, faults>>

\* UpdateLeadRequest with the fields the client set (exclude_unset)
UpdateRequests ==
    { [status |-> "replied"],
      [contact_email |-> <<"c","@","e","x">>],
      [website |-> Example2, contact_email |-> None] }

\* leads.py 233-256
update_lead(u, id, request, link_eq) ==
    LET code == Lookup(u, id, link_eq) IN
    /\ LeadRequest
    /\ resp' = Response("update", u, code, LeadInfo(id, None))
    /\ leads' = IF code = 200
                THEN [leads EXCEPT ![id] =
                        [f \in DOMAIN @ |->
                            IF f \in DOMAIN request THEN request[f] ELSE @[f]]]
                ELSE leads
    /\ UNCHANGED <<usage, smtp, faults>>

\* leads.py 258-276
delete_lead(u, id, link_eq) ==
    LET code == Lookup(u, id, link_eq) IN
    /\ LeadRequest
    /\ resp' = Response("delete", u, code, LeadInfo(id, None))
    /\ leads' = IF code = 200 THEN [leads EXCEPT ![id] = DeletedLead] ELSE leads
    /\ UNCHANGED <<usage, smtp, faults>>

\* leads.py 278-308
send_email_to_lead(u, id, net, db, link_eq) ==
    LET code == Lookup(u, id, link_eq) IN
    /\ LeadRequest
    /\ IF code # 200 THEN
           /\ resp' = Response("send", u, code, SendInfo(id, "none", "none"))
           /\ UNCHANGED <<leads, usage, smtp, faults>>
       ELSE IF ~HasContactEmail(leads[id]) THEN
           /\ resp' = Response("send", u, 400, SendInfo(id, "none", "none"))
           /\ UNCHANGED <<leads, usage, smtp, faults>>
       ELSE EmailService_send_email(u, id, net, db)

\* emails.py 72-99
preview_email(u, id, link_eq) ==
    LET code == LookupChecked(u, id, link_eq) IN
    /\ LeadRequest
    /\ resp' = Response("preview", u, code,
                        LeadInfo(id, IF code = 200 THEN leads[id] ELSE None))
    /\ UNCHANGED <<leads, usage, smtp, faults>>

GetLead ==
    /\ \E u \in Users, id \in LeadIds, link_eq \in BOOLEAN : get_lead(u, id, link_eq)
    /\ UNCHANGED <<sheetVars, schedVars, callVars, statVars>>

UpdateLead ==
    /\ \E u \in Users, id \in LeadIds, request \in UpdateRequests, link_eq \in BOOLEAN :
            update_lead(u, id, request, link_eq)
    /\ UNCHANGED <<sheetVars, schedVars, callVars, statVars>>

DeleteLead ==
    /\ \E u \in Users, id \in LeadIds, link_eq \in BOOLEAN : delete_lead(u, id, link_eq)
    /\ UNCHANGED <<sheetVars, schedVars, callVars, statVars>>

SendEmailToLead ==
    /\ \E u \in Users, id \in LeadIds, net \in {"ok", "send_fails"},
          db \in SendDbOutcomes, link_eq \in BOOLEAN :
            send_email_to_lead(u, id, net, db, link_eq)
    /\ UNCHANGED <<sheetVars, schedVars, callVars, statVars>>

PreviewEmail ==
    /\ \E u \in Users, id \in 1..(Len(leads) + 1), link_eq \in BOOLEAN :
            preview_email(u, id, link_eq)
    /\ UNCHANGED <<sheetVars, schedVars, callVars, statVars>>

----------------------------------------------------------------------------
(* Backend: POST /leads/send-all-emails *)

\* what happens to one lead of the run: the SMTP session, the database
\* writes inside EmailService.send_email, and the endpoint's own save
SendAllOutcomes ==
    [net : {"ok", "send_fails"}, db : SendDbOutcomes, save_ok : BOOLEAN]

\* leads.py 319-323: the leads the query finds, in the order of the
\* collection.  Lead.user == current_user.id compares the stored link with an
\* ObjectId: whether the caller's leads match is up to the ODM version
\* (find_ok); another user's leads never match.
FindToContact(u, find_ok) ==
    LET hit(i) == /\ find_ok
                  /\ Stored(i)
                  /\ leads[i].user = u
                  /\ leads[i].contact_email # None
                  /\ leads[i].status # "contacted"
        F[i \in 0..Len(leads)] ==
            IF i = 0 THEN <<>>
            ELSE IF hit(i) THEN Append(F[i - 1], i) ELSE F[i - 1]
    IN F[Len(leads)]

\* leads.py 333-366: one turn of the loop.  After a success the endpoint
\* counts the lead as sent and saves it again; if that save raises, the
\* handler of line 357 counts it as failed as well.
SendAllTurn(u, id, o, st) ==
    LET r == send_email(st, u, id, o.net, o.db) IN
    IF r.success THEN
        [leads |-> r.leads, usage |-> r.usage, smtp |-> r.smtp,
         faults |-> IF o.save_ok THEN r.faults ELSE r.faults - 1,
         possible |-> st.possible /\ r.possible /\ (o.save_ok \/ r.faults > 0),
         sent_count |-> st.sent_count + 1,
         failed_count |-> IF o.save_ok THEN st.failed_count ELSE st.failed_count + 1,
         results |-> Append(st.results, IF o.save_ok THEN "sent" ELSE "failed")]
    ELSE
        [leads |-> r.leads, usage |-> r.usage, smtp |-> r.smtp,
         faults |-> r.faults,
         possible |-> st.possible /\ r.possible,
         sent_count |-> st.sent_count,
         failed_count |-> st.failed_count + 1,
         results |-> Append(st.results, "failed")]

RECURSIVE SendAllLoop(_, _, _, _, _)
SendAllLoop(u, found, outcome, k, st) ==
    IF k > Len(found) THEN st
    ELSE SendAllLoop(u, found, outcome, k + 1,
                     SendAllTurn(u, found[k], outcome[k], st))

SendAllInfo(found, st) ==
    [selected |-> found, sent_count |-> st.sent_count,
     failed_count |-> st.failed_count, results |-> st.results]

\* leads.py 310-375
send_emails_to_all_leads(u, find_ok) ==
    LET found == FindToContact(u, find_ok)
        st0 == [leads |-> leads, usage |-> usage, smtp |-> smtp, faults |-> faults,
                possible |-> TRUE, sent_count |-> 0, failed_count |-> 0,
                results |-> <<>>]
    IN
    /\ LeadRequest
    /\ IF found = <<>> THEN
           /\ resp' = Response("send_all", u, 400, SendAllInfo(found, st0))
           /\ UNCHANGED <<leads, usage, smtp, faults>>
       ELSE \E outcome \in [DOMAIN found -> SendAllOutcomes] :
              LET st == SendAllLoop(u, found, outcome, 1, st0) IN
              /\ st.possible
              /\ leads' = st.leads
              /\ usage' = st.usage
              /\ smtp' = st.smtp
              /\ faults' = st.faults
              /\ resp' = Response("send_all", u, 200, SendAllInfo(found, st))

SendAllEmails ==
    /\ \E u \in Users, find_ok \in BOOLEAN : send_emails_to_all_leads(u, find_ok)
    /\ UNCHANGED <<sheetVars, schedVars, callVars, statVars>>

NextSendAll ==
    \/ SendAllEmails
    \/ UpdateLead
    \/ SendEmailToLead

SpecSendAll == InitEmail /\ [][NextSendAll]_vars

----------------------------------------------------------------------------
(* Claims about send-all-emails *)

\* C13: a send-all-emails run that finds leads processes exactly the
\* caller's leads that have a contact email and are not yet contacted, each
\* once; a lead is 'contacted' afterwards exactly if its send is reported as
\* sent, and sent_count + failed_count is the number of leads processed.
C13_SendAllExact ==
    [][(resp'.op = "send_all" /\ resp'.code = 200) =>
         LET sel == resp'.info.selected
             u   == resp'.user
         IN /\ {sel[k] : k \in DOMAIN sel} =
                  {i \in DOMAIN leads :
                      /\ Stored(i)
                      /\ leads[i].user = u
                      /\ leads[i].contact_email # None
                      /\ leads[i].status # "contacted"}
            /\ \A j, k \in DOMAIN sel : j # k => sel[j] # sel[k]
            /\ \A k \in DOMAIN sel :
                  leads'[sel[k]].status = "contacted"
                      <=> resp'.info.results[k] = "sent"
            /\ resp'.info.sent_count + resp'.info.failed_count = Len(sel)
      ]_vars

----------------------------------------------------------------------------
(* Backend: the specification of the lead endpoints *)

NextLeads ==
    \/ GetLead
    \/ UpdateLead
    \/ DeleteLead
    \/ SendEmailToLead
    \/ PreviewEmail
    \/ Send
    \/ SendAllEmails

SpecLeads == InitEmail /\ [][NextLeads]_vars

----------------------------------------------------------------------------
(* Claims about the endpoints that address a lead by its id *)

LeadOps == {"get", "update", "delete", "send", "preview"}

\* C14: a caller who addresses a stored lead of another user by its id is
\* answered 403, is returned nothing, and the request changes no lead, sends
\* no mail and counts none; no request, send-all-emails included, changes a
\* lead of a user other than the caller.
C14_OthersLeadsForbidden ==
    [][/\ (/\ resp'.op \in LeadOps
           /\ Stored(resp'.info.lead_id)
           /\ leads[resp'.info.lead_id].user # resp'.user) =>
                /\ resp'.code = 403
                /\ "body" \in DOMAIN resp'.info => resp'.info.body = None
                /\ UNCHANGED <<leads, smtp, usage>>
       /\ \A id \in DOMAIN leads :
            (resp'.op \in LeadOps \cup {"send_all"} /\ leads[id].user # resp'.user) =>
                leads'[id] = leads[id]
      ]_vars

\* C14 witness: u2 asked to delete a stored lead of u1 with an email address
\* and was answered 403, after u1 had updated that lead
C14_Witness ==
    /\ resp.op = "delete"
    /\ resp.user = "u2"
    /\ resp.code = 403
    /\ Stored(resp.info.lead_id)
    /\ leads[resp.info.lead_id].user = "u1"
    /\ leads[resp.info.lead_id].status = "replied"

\* C15: get, update and delete for an id that resolves to no stored lead,
\* malformed or well-formed, are answered 404 and change no state.
C15_MissingLeadNotFound ==
    [][(/\ resp'.op \in {"get", "update", "delete"}
        /\ ~Stored(resp'.info.lead_id)) =>
            /\ resp'.code = 404
            /\ UNCHANGED <<leads, users, usage, smtp>>
      ]_vars

----------------------------------------------------------------------------
(* Backend: POST /auth/signup *)

MaxSignups == 3

\* SignupRequest.email
Emails == {<<"a", "@", "x">>, <<"b", "@", "x">>, <<"A", "@", "x">>}

\* the ObjectIds the database hands out, in the order of insertion
UserIds == <<"u1", "u2", "u3">>

\* auth.py 44: User.find_one(User.email == request.email), as a set of ids
FindUser(us, email) == {id \in DOMAIN us : us[id].email = email}

\* auth.py 49-55: the User the handler builds
SignupUser(email) == [email |-> email] @@ NewUser

\* auth.py 56: user.insert(); models/user.py 45-50 declares the index on "email"
\* by its name only, which is an ordinary index, and the field's unique=True is
\* an argument of pydantic's Field that the ODM does not read: the collection
\* accepts a second document with the same email
insert(us, doc) == (UserIds[Cardinality(DOMAIN us) + 1] :> doc) @@ us

\* auth.py 41-46: the handler up to the answer of find_one; a registered email
\* is rejected, otherwise the request goes on to the insert
signup_find(email) ==
    /\ nops < MaxSignups
    /\ nops' = nops + 1
    /\ IF FindUser(users, email) # {}
       THEN /\ resp' = Response("signup", None, 400, [email |-> email])
            /\ UNCHANGED <<users, calls>>
       ELSE /\ calls' = Append(calls, [op |-> "signup", email |-> email,
                                        pc |-> "insert"])
            /\ UNCHANGED <<users, resp>>
    /\ UNCHANGED <<leads, usage, tasks, sessions, smtp, faults, now>>

\* auth.py 48-75: the insert of a request that found no user, and the answer
signup_insert(c) ==
    /\ calls[c].op = "signup"
    /\ calls[c].pc = "insert"
    /\ users' = insert(users, SignupUser(calls[c].email))
    /\ calls' = [calls EXCEPT ![c].pc = "done"]
    /\ resp' = Response("signup", UserIds[Cardinality(DOMAIN users) + 1], 200,
                        [email |-> calls[c].email])
    /\ UNCHANGED <<leads, usage, tasks, sessions, smtp, nops, faults, now>>

InitSignup ==
    /\ InitBackendIdle
    /\ users = <<>>

SignupFind ==
    /\ \E email \in Emails : signup_find(email)
    /\ UNCHANGED <<sheetVars, schedVars, statVars>>

SignupInsert ==
    /\ \E c \in DOMAIN calls : signup_insert(c)
    /\ UNCHANGED <<sheetVars, schedVars, statVars>>

NextSignup == SignupFind \/ SignupInsert

SpecSignup == InitSignup /\ [][NextSignup]_vars

\* C16: user emails are unique: whatever the order or interleaving of signup
\* requests, two concurrent signups for one email included, at most one User
\* document exists per email
C16_UniqueEmails ==
    \A a, b \in DOMAIN users : users[a].email = users[b].email => a = b

----------------------------------------------------------------------------
(* Backend: sends in progress together *)

\* the request gets as far as EmailService.track_email_sent: the lead is
\* found and the caller's (emails.py 26-36), the settings and the contact
\* email are there, the SMTP server took the message and the lead was saved
\* (email_service.py 33-90)
ReachesTracking(u, id, net, db, link_eq) ==
    /\ Stored(id)
    /\ ~NotOwner(leads[id], u, link_eq)
    /\ SmtpConfigured(users[u])
    /\ HasContactEmail(leads[id])
    /\ net = "ok"
    /\ db # "lead_save_raises"

\* emails.py 19-54 down to email_service.py 146-149: the request up to the
\* answer of UsageTracking.find_one, which it keeps as the document (or None)
\* it will save; a request that does not get that far is answered at once
send_begin(u, id, net, db, link_eq) ==
    IF ReachesTracking(u, id, net, db, link_eq) THEN
        LET i == FindUsage(usage, u, now) IN
        /\ nops < MaxSends
        /\ nops' = nops + 1
        /\ leads' = [leads EXCEPT ![id].status = "contacted"]
        /\ smtp' = [smtp EXCEPT !.connections = @ + 1,
                                !.delivered = Append(@, id)]
        /\ calls' = Append(calls,
               [op |-> "send", pc |-> "save", user |-> u, lead_id |-> id,
                month |-> now, found |-> i,
                emails_sent |-> IF i = 0 THEN 0 ELSE usage[i].emails_sent])
        /\ UNCHANGED <<users, usage, tasks, sessions, resp, faults, now>>
    ELSE
        /\ SendEmail(u, id, net, db, link_eq)
        /\ UNCHANGED calls

\* email_service.py 151-160 and 92-114: a new document is inserted, a found
\* one is written back with its count raised; then the answer.  Without a
\* unique index (models/usage.py 16-20 lists the compound index as a plain
\* one) the insert succeeds whatever the collection holds.
track_save(c, save_ok) ==
    LET call == calls[c] IN
    /\ call.op = "send"
    /\ call.pc = "save"
    /\ calls' = [calls EXCEPT ![c].pc = "done"]
    /\ IF save_ok THEN
           /\ usage' = IF call.found = 0
                       THEN Append(usage, [user |-> call.user, month |-> call.month,
                                           emails_sent |-> 1])
                       ELSE [usage EXCEPT ![call.found].emails_sent =
                                              call.emails_sent + 1]
           /\ resp' = Response("send", call.user, 200,
                               SendInfo(call.lead_id, "ok", "ok"))
           /\ UNCHANGED faults
       ELSE
           /\ faults > 0
           /\ faults' = faults - 1
           /\ resp' = Response("send", call.user, 400,
                               SendInfo(call.lead_id, "ok", "usage_save_raises"))
           /\ UNCHANGED usage
    /\ UNCHANGED <<users, leads, tasks, sessions, smtp, nops, now>>

SendBegin ==
    /\ \E u \in Users, id \in 1..(Len(leads) + 1), net \in SmtpOutcomes,
          db \in SendDbOutcomes \ {"usage_save_raises"}, link_eq \in BOOLEAN :
            send_begin(u, id, net, db, link_eq)
    /\ UNCHANGED <<sheetVars, schedVars, statVars>>

TrackSave ==
    /\ \E c \in DOMAIN calls, save_ok \in BOOLEAN : track_save(c, save_ok)
    /\ UNCHANGED <<sheetVars, schedVars, statVars>>

NextUsage == SendBegin \/ TrackSave \/ NextMonth

SpecUsage == InitEmail /\ [][NextUsage]_vars

\* C17: there is at most one UsageTracking row per (user, month start) after
\* any sequence or interleaving of sends, two sends of one user that both find
\* no row for the month before either saves included
C17_OneUsageRowPerMonth ==
    \A i, j \in DOMAIN usage :
        (usage[i].user = usage[j].user /\ usage[i].month = usage[j].month) => i = j

----------------------------------------------------------------------------
(* Command-line tool: Analytics *)

MaxRuns == 3

Health == <<"h", "e", "a", "l", "t", "h">>

\* the position of a key in a dict kept as a sequence of <<key, value>> pairs
\* in insertion order, 0 for a key that is not there
KeyIndex(d, key) ==
    IF \E i \in DOMAIN d : d[i][1] = key
    THEN CHOOSE i \in DOMAIN d : d[i][1] = key
    ELSE 0

\* analytics.py 119: d[industry] = d.get(industry, 0) + 1
CountIndustry(d, industry) ==
    LET i == KeyIndex(d, industry) IN
    IF i = 0 THEN Append(d, <<industry, 1>>)
    ELSE [d EXCEPT ![i] = <<industry, d[i][2] + 1>>]

RECURSIVE CountIndustries(_, _)
\* analytics.py 118-119: for industry in industries
CountIndustries(d, industries) ==
    IF industries = <<>> THEN d
    ELSE CountIndustries(CountIndustry(d, Head(industries)), Tail(industries))

\* a mutant of record_run: the history keeps the latest run only
record_run_latest_only(data, run) ==
    [data EXCEPT !.total_runs = @ + 1,
                 !.total_leads_discovered = @ + run.leads_found,
                 !.total_emails_generated = @ + run.emails_generated,
                 !.total_portfolios_created = @ + run.portfolios_created,
                 !.total_duplicates_found = @ + run.duplicates,
                 !.industries = CountIndustries(@, run.industries),
                 !.runs = <<run>>]

\* analytics.py 82-126: Analytics.record_run; run holds the arguments, which
\* are also the entry of the history (its timestamp is left out)
record_run(data, run) ==
    [data EXCEPT !.total_runs = @ + 1,
                 !.total_leads_discovered = @ + run.leads_found,
                 !.total_emails_generated = @ + run.emails_generated,
                 !.total_portfolios_created = @ + run.portfolios_created,
                 !.total_duplicates_found = @ + run.duplicates,
                 !.industries = CountIndustries(@, run.industries),
                 !.runs = Append(@, run)]

\* the arguments of the calls of the model: counts that are zero or more
RunArgs ==
    [business_name : {<<"E", "x">>},
     leads_found : {0, 2},
     emails_generated : {1},
     portfolios_created : {1},
     duplicates : {0, 1},
     industries : {<<>>, <<Tech, Health, Tech>>},
     success : {TRUE},
     error : {None}]
    \cup
    [business_name : {<<"E", "x">>},
     leads_found : {0, 2},
     emails_generated : {0},
     portfolios_created : {0},
     duplicates : {0, 1},
     industries : {<<>>, <<Health>>},
     success : {FALSE},
     error : {<<"e", "r", "r">>}]

RecordRun ==
    /\ analytics.total_runs < MaxRuns
    /\ \E run \in RunArgs :
        /\ analytics' = record_run(analytics, run)
        /\ report' = [op |-> "record_run", run |-> run]
    /\ UNCHANGED assistant
    /\ UNCHANGED <<backendVars, sheetVars, schedVars, callVars>>

\* round(num / den, 2) in hundredths: the nearest hundredth, a tie going to
\* the even one
Round2(num, den) ==
    LET q == (100 * num) \div den
        r == (100 * num) % den
    IN  IF 2 * r < den THEN q
        ELSE IF 2 * r > den THEN q + 1
        ELSE IF q % 2 = 0 THEN q ELSE q + 1

\* the items of a dict sorted by value, largest first, equal values in the
\* order of the first n items of d
RECURSIVE SortedByCount(_, _)
SortedByCount(d, n) ==
    IF n = 0 THEN <<>>
    ELSE LET s == SortedByCount(d, n - 1)
             k == Cardinality({i \in DOMAIN s : s[i][2] >= d[n][2]})
         IN  SubSeq(s, 1, k) \o <<d[n]>> \o SubSeq(s, k + 1, Len(s))

\* analytics.py 148-159: Counter(industries).most_common(count)
_get_top_industries(data, count) ==
    Take(SortedByCount(data.industries, Len(data.industries)), count)

\* analytics.py 161-170, in hundredths
_calculate_avg_leads_per_run(data) ==
    IF data.total_runs = 0 THEN 0
    ELSE Round2(data.total_leads_discovered, data.total_runs)

\* a mutant of _calculate_success_rate: the percentage is cut off after two
\* decimals rather than rounded
_calculate_success_rate_cut(data) ==
    IF data.runs = <<>> THEN 0
    ELSE LET successful == Cardinality({i \in DOMAIN data.runs : data.runs[i].success})
         IN  (successful * 10000) \div Len(data.runs)

\* analytics.py 172-182, in hundredths of a percent
_calculate_success_rate(data) ==
    IF data.runs = <<>> THEN 0
    ELSE LET successful == Cardinality({i \in DOMAIN data.runs : data.runs[i].success})
         IN  Round2(successful * 100, Len(data.runs))

\* analytics.py 184-198
_get_last_run_info(data) ==
    IF data.runs = <<>> THEN None
    ELSE LET last_run == data.runs[Len(data.runs)] IN
         [business_name |-> last_run.business_name,
          leads_found |-> last_run.leads_found,
          success |-> last_run.success]

\* analytics.py 128-146: Analytics.get_summary
get_summary(data) ==
    [total_runs |-> data.total_runs,
     total_leads |-> data.total_leads_discovered,
     total_emails |-> data.total_emails_generated,
     total_portfolios |-> data.total_portfolios_created,
     total_duplicates |-> data.total_duplicates_found,
     unique_industries |-> Len(data.industries),
     top_industries |-> _get_top_industries(data, 5),
     avg_leads_per_run |-> _calculate_avg_leads_per_run(data),
     success_rate |-> _calculate_success_rate(data),
     last_run |-> _get_last_run_info(data)]

GetSummary ==
    /\ report' = [op |-> "get_summary", summary |-> get_summary(analytics)]
    /\ UNCHANGED <<analytics, assistant>>
    /\ UNCHANGED <<backendVars, sheetVars, schedVars, callVars>>

InitAnalytics ==
    /\ InitBackendIdle
    /\ users = [u \in Users |-> NewUser]

NextAnalytics == RecordRun \/ GetSummary

SpecAnalytics == InitAnalytics /\ [][NextAnalytics]_vars

Totals == {"total_runs", "total_leads_discovered", "total_emails_generated",
           "total_portfolios_created", "total_duplicates_found"}

\* C18: across record_run calls with counts of zero or more, no total and no
\* per-industry counter ever decreases, total_runs grows by exactly one per
\* call, and the run history only grows, by appending
C18_TotalsGrow ==
    [][report'.op = "record_run" =>
          /\ \A f \in Totals : analytics'[f] >= analytics[f]
          /\ analytics'.total_runs = analytics.total_runs + 1
          /\ \A i \in DOMAIN analytics.industries :
                LET j == KeyIndex(analytics'.industries, analytics.industries[i][1])
                IN  j # 0 /\ analytics'.industries[j][2] >= analytics.industries[i][2]
          /\ analytics'.runs = Append(analytics.runs, report'.run)
      ]_vars

C18_Witness ==
    /\ report.op = "record_run"
    /\ analytics.total_runs = 2
    /\ analytics.total_leads_discovered = 4
    /\ Len(analytics.runs) = 2
    /\ \E i \in DOMAIN analytics.industries : analytics.industries[i] = <<Tech, 4>>

Abs(x) == IF x < 0 THEN -x ELSE x

Successes == Cardinality({i \in DOMAIN analytics.runs : analytics.runs[i].success})

\* C19: the success_rate of get_summary is 100 * (recorded runs with
\* success=true) / total_runs rounded to two decimals (no hundredth is nearer
\* to the quotient), 0.0 when no run is recorded and 100.0 when every recorded
\* run succeeded; rates are in hundredths of a percent
C19_SuccessRate ==
    report.op = "get_summary" =>
        LET n == analytics.total_runs
            r == report.summary.success_rate
        IN  /\ n = 0 => r = 0
            /\ n > 0 => 2 * Abs(r * n - 10000 * Successes) <= n
            /\ (n > 0 /\ Successes = n) => r = 10000

C19_Witness ==
    /\ report.op = "get_summary"
    /\ analytics.total_runs = 3
    /\ Successes = 2
    /\ report.summary.success_rate = 6667

----------------------------------------------------------------------------
(* Command-line tool: SmartMarketingAssistant.run *)

MaxCalls == 2

BusinessName == <<"E", "x">>

OtherSite == <<"h", "t", "t", "p", ":", "/", "/", "b", ".", "i", "o">>

\* a lead as discover_leads returns it
DiscoveredLead(website) ==
    [company_name |-> <<"E", "x">>, website |-> website, industry |-> Tech]

\* what discover_leads returns in the model: no lead, one, or two
Discoveries ==
    {<<>>, <<DiscoveredLead(Example1)>>,
     <<DiscoveredLead(Example1), DiscoveredLead(OtherSite)>>}

\* what generate_outreach_email returns: a generated email or the fallback
EmailContents ==
    {[success |-> ok, subject |-> <<"H", "i">>, body |-> <<"B">>] : ok \in BOOLEAN}

\* str(e) of an exception
Boom == <<"b", "o", "o", "m">>

AnalysisFailed == <<"W","e","b","s","i","t","e"," ","a","n","a","l","y","s","i","s",
                    " ","f","a","i","l","e","d">>

NoLeadsFound == <<"N","o"," ","l","e","a","d","s"," ","f","o","u","n","d">>

\* a mutant of InitialResults: total_leads counts one lead too many
InitialResultsOneMore(found) ==
    [total_leads |-> Len(found) + 1, processed |-> 0, emails_generated |-> 0,
     portfolios_created |-> 0, duplicates |-> 0, errors |-> 0, industries |-> <<>>]

\* cli.py 115-123
InitialResults(found) ==
    [total_leads |-> Len(found), processed |-> 0, emails_generated |-> 0,
     portfolios_created |-> 0, duplicates |-> 0, errors |-> 0, industries |-> <<>>]

\* cli.py 219-227: the arguments of the record of a completed workflow
CompletedRun(results) ==
    [business_name |-> BusinessName,
     leads_found |-> results.total_leads,
     emails_generated |-> results.emails_generated,
     portfolios_created |-> results.portfolios_created,
     duplicates |-> results.duplicates,
     industries |-> results.industries,
     success |-> TRUE,
     error |-> None]

\* cli.py 240-249: the arguments of the record of a failed workflow
FailedRun(error) ==
    [business_name |-> BusinessName, leads_found |-> 0, emails_generated |-> 0,
     portfolios_created |-> 0, duplicates |-> 0, industries |-> <<>>,
     success |-> FALSE, error |-> error]

\* what run returns, with the number of the call
RunReturn(n, success, error, results) ==
    [op |-> "run", n |-> n, success |-> success, error |-> error,
     results |-> results]

\* cli.py 74-123: run down to the loop.  raises tells which step, if any,
\* throws; site_ok is the 'success' of the analysis of the own website
run_begin(raises, site_ok, found) ==
    LET n == assistant.started + 1 IN
    /\ assistant.pc = "idle"
    /\ assistant.started < MaxCalls
    /\ UNCHANGED <<sheet, ret, outbox>>
    /\ IF raises = "analyze" \/ (site_ok /\ raises = "discover") THEN
           /\ analytics' = record_run(analytics, FailedRun(Boom))
           /\ report' = RunReturn(n, FALSE, Boom, <<>>)
           /\ assistant' = [assistant EXCEPT !.started = n]
       ELSE IF ~site_ok THEN
           /\ report' = RunReturn(n, FALSE, AnalysisFailed, <<>>)
           /\ assistant' = [assistant EXCEPT !.started = n]
           /\ UNCHANGED analytics
       ELSE IF found = <<>> THEN
           /\ report' = RunReturn(n, FALSE, NoLeadsFound, <<>>)
           /\ assistant' = [assistant EXCEPT !.started = n]
           /\ UNCHANGED analytics
       ELSE
           /\ assistant' = [pc |-> "loop", started |-> n, leads |-> found,
                            results |-> InitialResults(found)]
           /\ UNCHANGED <<analytics, report>>

\* cli.py 128-216: one turn of the loop over the leads.  raises tells which
\* step, if any, throws; contact is the email enrichment found, analysis the
\* industry the analysis of the lead's website gave (None: it failed)
run_lead(raises, contact, analysis, email_content, portfolio_ok, read_ok, write_ok) ==
    LET lead == Head(assistant.leads)
        results == assistant.results
        industry == IF analysis = None THEN lead.industry ELSE analysis
        industries == IF \E i \in DOMAIN results.industries :
                             results.industries[i] = industry
                      THEN results.industries
                      ELSE Append(results.industries, industry)
        sheet_data == [company_name |-> lead.company_name,
                       website |-> lead.website,
                       contact_email |-> contact,
                       industry |-> industry,
                       email_subject |-> email_content.subject,
                       email_body |-> email_content.body,
                       portfolio_path |-> IF portfolio_ok THEN <<"p">> ELSE <<>>]
        counted == [results EXCEPT
            !.industries = IF raises = "enrich" THEN @ ELSE industries,
            !.emails_generated =
                IF raises \notin {"enrich", "email"} /\ email_content.success
                THEN @ + 1 ELSE @,
            !.portfolios_created =
                IF raises = "no" /\ portfolio_ok THEN @ + 1 ELSE @]
    IN
    /\ assistant.pc = "loop"
    /\ assistant.leads # <<>>
    /\ UNCHANGED <<analytics, report, outbox>>
    /\ IF raises # "no" THEN
           /\ assistant' = [assistant EXCEPT
                  !.leads = Tail(@),
                  !.results = [counted EXCEPT !.errors = @ + 1]]
           /\ UNCHANGED <<sheet, ret>>
       ELSE
           /\ add_lead(sheet_data, read_ok, write_ok)
           /\ assistant' = [assistant EXCEPT
                  !.leads = Tail(@),
                  !.results =
                      IF ret'.is_duplicate
                      THEN [counted EXCEPT !.duplicates = @ + 1]
                      ELSE IF ret'.success
                      THEN [counted EXCEPT !.processed = @ + 1]
                      ELSE [counted EXCEPT !.errors = @ + 1]]

\* cli.py 218-251: after the loop.  The run is recorded, the summary is
\* printed and run returns; a print that throws lands in the handler of the
\* whole workflow, which records a failed run
run_end(summary_ok) ==
    LET recorded == record_run(analytics, CompletedRun(assistant.results)) IN
    /\ assistant.pc = "loop"
    /\ assistant.leads = <<>>
    /\ UNCHANGED <<sheet, ret, outbox>>
    /\ assistant' = [NoRun EXCEPT !.started = assistant.started]
    /\ IF summary_ok THEN
           /\ analytics' = recorded
           /\ report' = RunReturn(assistant.started, TRUE, None, assistant.results)
       ELSE
           /\ analytics' = record_run(recorded, FailedRun(Boom))
           /\ report' = RunReturn(assistant.started, FALSE, Boom, <<>>)

RunBegin ==
    /\ \E raises \in {"no", "analyze", "discover"}, site_ok \in BOOLEAN,
          found \in Discoveries : run_begin(raises, site_ok, found)
    /\ UNCHANGED <<backendVars, schedVars, callVars>>

RunLead ==
    /\ \E raises \in {"no", "enrich", "email", "portfolio"},
          contact \in {<<"a", "@", "e", "x">>},
          analysis \in {None, Health},
          email_content \in EmailContents,
          portfolio_ok \in BOOLEAN, read_ok \in BOOLEAN, write_ok \in BOOLEAN :
            run_lead(raises, contact, analysis, email_content, portfolio_ok,
                     read_ok, write_ok)
    /\ UNCHANGED <<backendVars, schedVars, callVars>>

RunEnd ==
    /\ \E summary_ok \in BOOLEAN : run_end(summary_ok)
    /\ UNCHANGED <<backendVars, schedVars, callVars>>

NextRun == RunBegin \/ RunLead \/ RunEnd

SpecRun == InitAnalytics /\ [][NextRun]_vars

\* C20: every call of run records the run to Analytics exactly once before it
\* returns: with success=true and the aggregated counts when the workflow
\* completed, with success=false and the error text when it failed
C20_RunRecordedOnce ==
    [][(report'.op = "run" /\ report' # report) =>
          analytics'.runs =
              Append(analytics.runs,
                     IF report'.success THEN CompletedRun(report'.results)
                     ELSE FailedRun(report'.error))
      ]_vars

----------------------------------------------------------------------------
(* Command-line tool: WebAnalyzer *)

MaxItems == 2

\* a text of 100 characters
LongText == [i \in 1..100 |-> "x"]

\* the texts of the list items and headings of the service sections of a page
ItemTexts ==
    {<<"W", "e", "b">>, <<" ", "W", "e", "b", " ">>, <<" ">>, <<"S", "E", "O">>,
     LongText}

\* sixteen texts, no two alike
ManyTexts == [i \in 1..16 |-> <<"s">> \o IntToStr(i)]

\* the pages of the model: the texts of their service sections in the order
\* _extract_services meets them
Pages ==
    {<<>>, ManyTexts}
    \cup UNION {[1..n -> ItemTexts] : n \in 1..MaxItems}

RECURSIVE DictFromKeys(_)
\* list(dict.fromkeys(seq)): the first occurrence of every element, in order
DictFromKeys(seq) ==
    IF seq = <<>> THEN <<>>
    ELSE LET front == DictFromKeys(SubSeq(seq, 1, Len(seq) - 1))
             last == seq[Len(seq)]
         IN  IF \E i \in DOMAIN front : front[i] = last THEN front
             ELSE Append(front, last)

RECURSIVE ServiceTexts(_)
\* web_analyzer.py 166-182: the stripped texts that are not empty and shorter
\* than 100 characters
ServiceTexts(texts) ==
    IF texts = <<>> THEN <<>>
    ELSE LET service_text == StrStrip(Head(texts)) IN
         IF service_text # <<>> /\ Len(service_text) < 100
         THEN <<service_text>> \o ServiceTexts(Tail(texts))
         ELSE ServiceTexts(Tail(texts))

GeneralBusinessServices ==
    <<"G","e","n","e","r","a","l"," ","B","u","s","i","n","e","s","s"," ",
      "S","e","r","v","i","c","e","s">>

\* web_analyzer.py 151-187: WebAnalyzer._extract_services
_extract_services(page) ==
    LET services == Take(DictFromKeys(ServiceTexts(page)), 15) IN
    IF services # <<>> THEN services ELSE <<GeneralBusinessServices>>

Unknown == <<"U", "n", "k", "n", "o", "w", "n">>

\* web_analyzer.py 44-115: WebAnalyzer.analyze_website.  fetch tells whether
\* the request and the parse go through ("ok"), the request raises a
\* RequestException ("network") or something else raises ("parse"); of the
\* fields extracted from a fetched page only the services depend on the page
analyze_website(url, fetch, page) ==
    IF fetch = "ok" THEN
        [url |-> url, title |-> <<"T">>, description |-> <<"D">>,
         services |-> _extract_services(page), industry |-> Tech,
         keywords |-> <<>>, contact_email |-> None, contact_phone |-> None,
         main_content |-> <<"M">>, success |-> TRUE, error |-> None]
    ELSE IF fetch = "network" THEN
        [url |-> url, title |-> <<>>, description |-> <<>>,
         services |-> <<>>, industry |-> Unknown,
         keywords |-> <<>>, contact_email |-> None, contact_phone |-> None,
         main_content |-> <<>>, success |-> FALSE, error |-> Boom]
    ELSE
        [url |-> url, success |-> FALSE,
         error |-> <<"U","n","e","x","p","e","c","t","e","d"," ",
                     "e","r","r","o","r",":"," ">> \o Boom]

AnalyzeWebsite ==
    /\ \E url \in {Example1, OtherSite}, fetch \in {"ok", "network", "parse"},
          page \in Pages :
            report' = [op |-> "analyze_website", fetch |-> fetch, page |-> page,
                       result |-> analyze_website(url, fetch, page)]
    /\ UNCHANGED <<analytics, assistant>>
    /\ UNCHANGED <<backendVars, sheetVars, schedVars, callVars>>

NextAnalyzer == AnalyzeWebsite

SpecAnalyzer == InitAnalytics /\ [][NextAnalyzer]_vars

\* the services are the placeholder alone, or texts that are not empty and
\* shorter than 100 characters, no two alike and at most 15
ServicesWellFormed(services) ==
    \/ services = <<GeneralBusinessServices>>
    \/ /\ Len(services) >= 1
       /\ Len(services) <= 15
       /\ \A i \in DOMAIN services : services[i] # <<>> /\ Len(services[i]) < 100
       /\ \A i, j \in DOMAIN services : services[i] = services[j] => i = j

\* C21: every result of analyze_website, whether the fetch succeeded, the
\* network failed or the parse failed unexpectedly, has a services field that
\* is not empty: extracted names (no two alike, at most 15, each shorter than
\* 100 characters) or the placeholder "General Business Services" alone
C21_ServicesNeverEmpty ==
    report.op = "analyze_website" =>
        /\ "services" \in DOMAIN report.result
        /\ ServicesWellFormed(report.result.services)

----------------------------------------------------------------------------
(* Command-line tool: AIGenerator *)

MaxServices == 4

\* the texts of the template of ai_generator.py 266-282 between its fields

FallbackDear ==
    <<"D","e","a","r"," ">>

FallbackGreeting ==
    <<" ","T","e","a","m",",","\n","\n","I"," ","h","o","p","e"," ","t","h",
      "i","s"," ","m","e","s","s","a","g","e"," ","f","i","n","d","s"," ","y",
      "o","u"," ","w","e","l","l","."," ","I","'","m"," ","r","e","a","c","h",
      "i","n","g"," ","o","u","t"," ","f","r","o","m"," ">>

FallbackBecause ==
    <<" ","b","e","c","a","u","s","e"," ","I"," ","b","e","l","i","e","v","e",
      " ","w","e"," ","c","o","u","l","d"," ","p","r","o","v","i","d","e"," ",
      "s","i","g","n","i","f","i","c","a","n","t"," ","v","a","l","u","e"," ",
      "t","o"," ">>

FallbackOffer ==
    <<".","\n","\n","B","a","s","e","d"," ","o","n"," ","y","o","u","r"," ",
      "i","n","d","u","s","t","r","y"," ","a","n","d"," ","b","u","s","i","n",
      "e","s","s"," ","f","o","c","u","s",","," ","w","e"," ","o","f","f","e",
      "r"," ","s","e","r","v","i","c","e","s"," ","t","h","a","t"," ","c","o",
      "u","l","d"," ","b","e","n","e","f","i","t"," ","y","o","u","r"," ","o",
      "p","e","r","a","t","i","o","n","s",":","\n","\n">>

FallbackSpecialize ==
    <<"\n","\n","W","e"," ","s","p","e","c","i","a","l","i","z","e"," ","i",
      "n"," ","h","e","l","p","i","n","g"," ","c","o","m","p","a","n","i","e",
      "s"," ","l","i","k","e"," ","y","o","u","r","s"," ","a","c","h","i","e",
      "v","e"," ","t","h","e","i","r"," ","b","u","s","i","n","e","s","s"," ",
      "g","o","a","l","s"," ","t","h","r","o","u","g","h"," ","o","u","r"," ",
      "p","r","o","v","e","n"," ","s","o","l","u","t","i","o","n","s",".",
      "\n","\n","I","'","d"," ","l","o","v","e"," ","t","o"," ","s","c","h",
      "e","d","u","l","e"," ","a"," ","b","r","i","e","f"," ","c","a","l","l",
      " ","t","o"," ","d","i","s","c","u","s","s"," ","h","o","w"," ","w","e",
      " ","c","a","n"," ","s","u","p","p","o","r","t"," ">>

FallbackClosing ==
    <<"'","s"," ","g","r","o","w","t","h"," ","a","n","d"," ","s","u","c","c",
      "e","s","s",".","\n","\n","A","r","e"," ","y","o","u"," ","a","v","a",
      "i","l","a","b","l","e"," ","f","o","r"," ","a"," ","1","5","-","m","i",
      "n","u","t","e"," ","c","o","n","v","e","r","s","a","t","i","o","n"," ",
      "n","e","x","t"," ","w","e","e","k","?","\n","\n","B","e","s","t"," ",
      "r","e","g","a","r","d","s",",","\n">>

FallbackTeam ==
    <<" ","T","e","a","m">>

\* the bullet of a line of the list of services
Bullet == <<"*", " ">>

RECURSIVE JoinLines(_)
\* '\n'.join(lines)
JoinLines(lines) ==
    IF lines = <<>> THEN <<>>
    ELSE IF Len(lines) = 1 THEN lines[1]
    ELSE lines[1] \o <<"\n">> \o JoinLines(Tail(lines))

\* ai_generator.py 264: one bulleted line for each of the services
ServicesList(services) ==
    JoinLines([i \in 1..Len(services) |-> Bullet \o services[i]])

\* ai_generator.py 266-282: the template filled in
FallbackBody(company_name, your_name, services) ==
    FallbackDear \o company_name \o FallbackGreeting \o your_name
    \o FallbackBecause \o company_name \o FallbackOffer
    \o ServicesList(services)
    \o FallbackSpecialize \o company_name \o FallbackClosing
    \o your_name \o FallbackTeam

YourCompany == <<"y","o","u","r"," ","c","o","m","p","a","n","y">>

OurCompany == <<"o","u","r"," ","c","o","m","p","a","n","y">>

\* a mutant of _generate_fallback_email: every matched service is listed
_generate_fallback_email_all(your_business, lead, matched_services) ==
    FallbackBody(Get(lead, "company_name", YourCompany),
                 Get(your_business, "name", OurCompany),
                 matched_services)

\* ai_generator.py 250-284: AIGenerator._generate_fallback_email
_generate_fallback_email(your_business, lead, matched_services) ==
    FallbackBody(Get(lead, "company_name", YourCompany),
                 Get(your_business, "name", OurCompany),
                 Take(matched_services, 3))

PartnershipWith ==

    <<"P","a","r","t","n","e","r","s","h","i","p"," ","O","p","p","o","r","t",
      "u","n","i","t","y"," ","w","i","t","h"," ">>

\* ai_generator.py 73-100: AIGenerator.generate_outreach_email.  backend tells
\* whether the prompt is built and answered ("ok") or something in the try
\* block raises; parsed is what _parse_email_response makes of the answer
generate_outreach_email(your_business, lead, matched_services, backend, parsed) ==
    IF backend = "ok" THEN
        [subject |-> parsed.subject, body |-> parsed.body,
         matched_services |-> matched_services, success |-> TRUE, error |-> None]
    ELSE
        [subject |-> PartnershipWith \o Get(your_business, "name", <<>>),
         body |-> _generate_fallback_email(your_business, lead, matched_services),
         matched_services |-> matched_services, success |-> FALSE, error |-> Boom]

\* the caller's business, with a name or without
YourBusinesses ==
    {[name |-> <<"A", "c", "m", "e">>],
     [name |-> <<"T", "e", "s", "t", " ", "C", "o">>], <<>>}

\* the lead, with a company name or without
OutreachTargets ==
    {[company_name |-> <<"L", "e", "a", "d", " ", "C", "o">>],
     [company_name |-> <<"L">>], <<>>}

ServiceNames == {<<"S", "E", "O">>, <<"Z", "q">>}

MatchedServices == UNION {[1..n -> ServiceNames] : n \in 0..MaxServices}

GenerateOutreachEmail ==
    /\ \E your_business \in YourBusinesses, lead \in OutreachTargets,
          matched_services \in MatchedServices, backend \in {"ok", "raises"} :
            report' = [op |-> "generate_outreach_email",
                       your_business |-> your_business, lead |-> lead,
                       matched_services |-> matched_services, backend |-> backend,
                       result |-> generate_outreach_email(
                                     your_business, lead, matched_services, backend,
                                     [subject |-> <<"H", "i">>, body |-> <<"B">>])]
    /\ UNCHANGED <<analytics, assistant>>
    /\ UNCHANGED <<backendVars, sheetVars, schedVars, callVars>>

NextGenerator == GenerateOutreachEmail

SpecGenerator == InitAnalytics /\ [][NextGenerator]_vars

\* the number of places of s where sub begins
Occurrences(s, sub) ==
    Cardinality({i \in 1..(Len(s) - Len(sub) + 1) :
                    SubSeq(s, i, i + Len(sub) - 1) = sub})

\* C22: when the AI backend raises, generate_outreach_email returns
\* success=false with the error text and a fallback email whose body holds
\* the caller's business name and the lead's company name verbatim and lists
\* at most the first 3 matched services
C22_FallbackOnFailure ==
    (report.op = "generate_outreach_email" /\ report.backend = "raises") =>
        LET body == report.result.body
            matched == report.matched_services
        IN  /\ report.result.success = FALSE
            /\ report.result.error = Boom
            /\ "name" \in DOMAIN report.your_business =>
                    Contains(body, report.your_business.name)
            /\ "company_name" \in DOMAIN report.lead =>
                    Contains(body, report.lead.company_name)
            /\ Occurrences(body, Bullet) <= 3
            /\ \A i \in DOMAIN matched :
                    Contains(body, Bullet \o matched[i]) =>
                        \E j \in 1..Min(3, Len(matched)) : matched[j] = matched[i]

C22_Witness ==
    /\ report.op = "generate_outreach_email"
    /\ report.backend = "raises"
    /\ "name" \in DOMAIN report.your_business
    /\ "company_name" \in DOMAIN report.lead
    /\ Len(report.matched_services) = 4
    /\ report.matched_services[4] = <<"Z", "q">>
    /\ \A i \in 1..3 : report.matched_services[i] = <<"S", "E", "O">>

----------------------------------------------------------------------------
(* Backend: POST /billing/reset-usage *)

\* a mutant of reset_monthly_usage: every caller resets every user
reset_monthly_usage_all(u) ==
    /\ users' = [v \in DOMAIN users |-> [users[v] EXCEPT !.leads_used = 0]]
    /\ resp' = Response("reset_usage", u, 200, [all_users |-> TRUE])
    /\ UNCHANGED <<leads, usage, tasks, sessions, smtp, nops, faults, now>>

\* billing.py 225-236: an admin resets leads_used of all users with one
\* update of the collection, any other caller saves its own document
reset_monthly_usage(u) ==
    /\ IF users[u].is_admin
       THEN /\ users' = [v \in DOMAIN users |-> [users[v] EXCEPT !.leads_used = 0]]
            /\ resp' = Response("reset_usage", u, 200, [all_users |-> TRUE])
       ELSE /\ users' = [users EXCEPT ![u].leads_used = 0]
            /\ resp' = Response("reset_usage", u, 200, [all_users |-> FALSE])
    /\ UNCHANGED <<leads, usage, tasks, sessions, smtp, nops, faults, now>>

\* users that have used part of their quota, one of them possibly an admin
InitReset ==
    /\ InitBackendIdle
    /\ users \in [Users -> {[NewUser EXCEPT !.leads_used = 7],
                            [NewUser EXCEPT !.leads_used = 45],
                            [NewUser EXCEPT !.leads_used = 7, !.is_admin = TRUE]}]

ResetUsage ==
    /\ \E u \in Users : reset_monthly_usage(u)
    /\ UNCHANGED <<sheetVars, schedVars, callVars, statVars>>

NextReset == ResetUsage \/ Checkout \/ Webhook

SpecReset == InitReset /\ [][NextReset]_vars

----------------------------------------------------------------------------
(* Command-line tool: LeadDiscovery *)

MaxQueries == 2

MaxResults == 2

Www == <<"w", "w", "w", ".">>

RECURSIVE ReplaceAll(_, _)
\* s.replace(sub, ''): every occurrence of sub taken out, from the left
ReplaceAll(s, sub) ==
    IF Len(s) < Len(sub) THEN s
    ELSE IF SubSeq(s, 1, Len(sub)) = sub
    THEN ReplaceAll(SubSeq(s, Len(sub) + 1, Len(s)), sub)
    ELSE <<Head(s)>> \o ReplaceAll(Tail(s), sub)

RECURSIVE UpTo(_, _)
\* the part of s before its first character of stops
UpTo(s, stops) ==
    IF s = <<>> \/ Head(s) \in stops THEN <<>>
    ELSE <<Head(s)>> \o UpTo(Tail(s), stops)

\* what follows "http:" or "https:" in a URL that begins so, else the URL
AfterScheme(url) ==
    IF StartsWith(StrLower(url), <<"h","t","t","p",":">>) THEN SubSeq(url, 6, Len(url))
    ELSE IF StartsWith(StrLower(url), <<"h","t","t","p","s",":">>)
    THEN SubSeq(url, 7, Len(url))
    ELSE url

\* urlparse(url): the network location and the path of an http(s) URL or of
\* a string without a scheme
urlparse(url) ==
    LET rest == AfterScheme(url) IN
    IF StartsWith(rest, <<"/", "/">>)
    THEN LET netloc == UpTo(SubSeq(rest, 3, Len(rest)), {"/", "?", "#"}) IN
         [netloc |-> netloc,
          path |-> UpTo(SubSeq(rest, 3 + Len(netloc), Len(rest)), {"?", "#"})]
    ELSE [netloc |-> <<>>, path |-> UpTo(rest, {"?", "#"})]

\* lead_discovery.py 309-327: LeadDiscovery._extract_domain
_extract_domain(url) ==
    LET parsed == urlparse(url)
        domain == IF parsed.netloc # <<>> THEN parsed.netloc ELSE parsed.path
    IN  StrLower(ReplaceAll(domain, Www))

SiteAbout ==
        <<"h","t","t","p","s",":","/","/","w","w","w",".","e","x","a","m","p","l","e",".","c","o","m","/","a","b","o","u","t">>

SitePlain ==
        <<"h","t","t","p","s",":","/","/","e","x","a","m","p","l","e",".","c","o","m">>

SiteUpper ==
        <<"h","t","t","p","s",":","/","/","W","W","W",".","E","x","a","m","p","l","e",".","c","o","m">>

\* the results a search gives: with a url or without
SearchResults ==
    {[url |-> url, title |-> <<"E", "x">>, snippet |-> <<"s">>] :
        url \in {SiteAbout, SitePlain, SiteUpper, OtherSite}}
    \cup {[title |-> <<"N", "o">>]}

\* what the searches of the generated queries give, query by query
Searches ==
    LET lists == UNION {[1..n -> SearchResults] : n \in 0..MaxResults}
    IN  UNION {[1..n -> lists] : n \in 0..MaxQueries}

RECURSIVE ProcessResults(_, _, _, _)
\* lead_discovery.py 72-94: the loop over the results of query number q;
\* found holds the leads and the domains seen so far
ProcessResults(found, results, q, max_leads) ==
    IF results = <<>> \/ Len(found.leads) >= max_leads THEN found
    ELSE LET result == Head(results)
             domain == _extract_domain(Get(result, "url", <<>>))
         IN  IF domain \in found.seen_domains
             THEN ProcessResults(found, Tail(results), q, max_leads)
             ELSE ProcessResults(
                     [found EXCEPT
                         !.leads = Append(@,
                             [company_name |-> Get(result, "title", <<"U","n","k">>),
                              website |-> Get(result, "url", <<>>),
                              description |-> Get(result, "snippet", <<>>),
                              source_query |-> q]),
                         !.seen_domains = @ \cup {domain}],
                     Tail(results), q, max_leads)

RECURSIVE QueryLoop(_, _, _, _)
\* lead_discovery.py 64-97: the loop over the queries from number q on;
\* issued counts the searches made
QueryLoop(found, searches, q, max_leads) ==
    IF q > Len(searches) \/ Len(found.leads) >= max_leads THEN found
    ELSE QueryLoop(
            [ProcessResults(found, searches[q], q, max_leads) EXCEPT
                !.issued = @ + 1],
            searches, q + 1, max_leads)

\* lead_discovery.py 40-101: LeadDiscovery.discover_leads, as a function of
\* what the searches of its queries give
discover_leads(searches, max_leads) ==
    QueryLoop([leads |-> <<>>, seen_domains |-> {}, issued |-> 0], searches, 1,
              max_leads)

\* one call of discover_leads
DiscoverLeadsCall ==
    /\ report = NoReport
    /\ \E searches \in Searches, max_leads \in 0..3 :
            report' = [op |-> "discover_leads", searches |-> searches,
                       max_leads |-> max_leads,
                       found |-> discover_leads(searches, max_leads)]
    /\ UNCHANGED <<analytics, assistant>>
    /\ UNCHANGED <<backendVars, sheetVars, schedVars, callVars>>

NextDiscovery == DiscoverLeadsCall

SpecDiscovery == InitAnalytics /\ [][NextDiscovery]_vars

\* the normalized domain of the claims: the network location in lower case
\* without a leading "www."
NormalizedDomain(url) ==
    LET parsed == urlparse(url) IN
    StripWww(StrLower(IF parsed.netloc # <<>> THEN parsed.netloc ELSE parsed.path))

\* C24: discover_leads returns at most max_leads leads, no two of them with
\* the same normalized domain, whatever the searches give, and it issues no
\* query once max_leads is reached
C24_DistinctDomains ==
    report.op = "discover_leads" =>
        LET found == report.found.leads IN
        /\ Len(found) <= report.max_leads
        /\ \A i, j \in DOMAIN found :
              NormalizedDomain(found[i].website) = NormalizedDomain(found[j].website)
                  => i = j

----------------------------------------------------------------------------
(* Backend: discovery tasks against a failing database *)

\* the discovery backend with one or two database writes that will fail
InitTask ==
    /\ InitToolIdle
    /\ users \in {f \in [Users -> Profiles] : f["u2"] = NewUser}
    /\ leads = <<>>
    /\ usage = <<>>
    /\ tasks = <<>>
    /\ sessions = <<>>
    /\ smtp = [connections |-> 0, delivered |-> <<>>]
    /\ resp = NoResponse
    /\ nops = 0
    /\ faults \in {1, 2}
    /\ now = 1

NextTask ==
    \/ Discover
    \/ RunTask

SpecTask == InitTask /\ [][NextTask]_vars

RECURSIVE Inserted(_, _, _)
\* the Lead documents of a task whose insert did not raise, in order
Inserted(items, outcome, i) ==
    IF i > Len(items) THEN <<>>
    ELSE (IF outcome[i] = "insert_raises" THEN <<>> ELSE <<items[i]>>)
            \o Inserted(items, outcome, i + 1)

\* C25: a discovery task always reaches its completion step and leaves the
\* queue, also after a top-level failure; the leads stored before it stay
\* stored, and a failure on one business (the insert or the counter save
\* raising) does not abort the rest: every business whose insert did not
\* raise is stored, in order, behind the leads that were there
C25_TaskSurvivesFailures ==
    [][Len(tasks') < Len(tasks) =>
        /\ Len(tasks') = Len(tasks) - 1
        /\ resp'.op = "task"
        /\ resp'.code \in {"completed", "failed"}
        /\ Len(leads') >= Len(leads)
        /\ SubSeq(leads', 1, Len(leads)) = leads
        /\ (resp'.code = "completed" =>
                leads' = leads \o Inserted(resp'.info.items, resp'.info.outcome, 1))
        /\ (resp'.code = "failed" => leads' = leads)]_vars

\* a finished task whose first business failed at the insert and whose last
\* business is stored all the same
C25_Witness ==
    /\ resp.op = "task"
    /\ resp.code = "completed"
    /\ Len(resp.info.items) >= 2
    /\ resp.info.outcome[1] = "insert_raises"
    /\ resp.info.outcome[Len(resp.info.items)] = "ok"
    /\ leads # <<>>
    /\ leads[Len(leads)] = resp.info.items[Len(resp.info.items)]

----------------------------------------------------------------------------
(* Backend: discover requests and discovery tasks in progress together *)

\* the discovery tasks the model lets be admitted in one behaviour
MaxTasks == 2

\* leads.py 66-103, admitted whatever tasks are queued or running: the
\* handler reads current_user.leads_used as the database holds it now
discover_leads_request(u, req) ==
    LET cu == users[u] IN
    /\ Len(tasks) + Len(calls) < MaxTasks
    /\ UNCHANGED <<nops, faults, now, calls>>
    /\ IF ~ValidRequest(req) THEN
           /\ resp' = Response("discover", u, 422, req)
           /\ UNCHANGED <<users, leads, usage, tasks, sessions, smtp>>
       ELSE IF QuotaExceeded(cu, req) THEN
           /\ resp' = Response("discover", u, 402, req)
           /\ UNCHANGED <<users, leads, usage, tasks, sessions, smtp>>
       ELSE IF req.max_leads > MaxAllowed(cu.plan) THEN
           /\ resp' = Response("discover", u, 403, req)
           /\ UNCHANGED <<users, leads, usage, tasks, sessions, smtp>>
       ELSE
           /\ tasks' = Append(tasks, [user_id |-> u, request_data |-> req])
           /\ resp' = Response("discover", u, 200, req)
           /\ UNCHANGED <<users, leads, usage, sessions, smtp>>

\* lead_discovery_service.py 28-68 and 150-200: the task loads its own copy
\* of the user (User.get), searches, and has the Lead documents to insert;
\* industry.title() on None raises and ends the task before any insert
task_begin(k, search) ==
    LET t     == tasks[k]
        u     == t.user_id
        user  == users[u]
        req   == t.request_data
        demo  == ~user.serpapi_key \/ search.error \/ search.businesses = <<>>
        fails == demo /\ req.target_industry = None
        items == IF fails THEN <<>>
                 ELSE IF demo THEN DemoItems(u, req)
                 ELSE SearchItems(u, user, req, search.businesses)
    IN
    /\ tasks' = [i \in 1..(Len(tasks) - 1) |-> IF i < k THEN tasks[i] ELSE tasks[i + 1]]
    /\ calls' = Append(calls,
                    [op |-> "task", user_id |-> u, user |-> user,
                     loaded |-> user.leads_used, items |-> items, i |-> 1,
                     pc |-> IF items = <<>> THEN "done" ELSE "insert"])
    /\ UNCHANGED <<users, leads, usage, sessions, smtp, resp, nops, faults, now>>

\* lead_discovery_service.py 109-114 and 203-207: await lead.insert(), then
\* user.leads_used += 1 on the task's own copy of the user
task_insert(c) ==
    LET call == calls[c] IN
    /\ call.op = "task"
    /\ call.pc = "insert"
    /\ leads' = Append(leads, call.items[call.i])
    /\ calls' = [calls EXCEPT ![c].user.leads_used = @ + 1, ![c].pc = "save"]
    /\ UNCHANGED <<users, usage, tasks, sessions, smtp, resp, nops, faults, now>>

\* lead_discovery_service.py 115 and 208: await user.save() writes the task's
\* copy of the user document; the loop goes on to the next business
task_save(c) ==
    LET call == calls[c] IN
    /\ call.op = "task"
    /\ call.pc = "save"
    /\ users' = [users EXCEPT ![call.user_id] = call.user]
    /\ calls' = [calls EXCEPT ![c].i = @ + 1,
                              ![c].pc = IF call.i = Len(call.items)
                                        THEN "done" ELSE "insert"]
    /\ UNCHANGED <<leads, usage, tasks, sessions, smtp, resp, nops, faults, now>>

DiscoverRequest ==
    /\ \E u \in Users, req \in DiscoverRequests : discover_leads_request(u, req)
    /\ UNCHANGED <<sheetVars, schedVars, statVars>>

TaskBegin ==
    /\ \E k \in DOMAIN tasks :
        \E search \in SearchOutcomes(tasks[k].request_data.max_leads) :
            /\ (~users[tasks[k].user_id].serpapi_key =>
                    search = [error |-> TRUE, businesses |-> <<>>])
            /\ task_begin(k, search)
    /\ UNCHANGED <<sheetVars, schedVars, statVars>>

TaskInsert ==
    /\ \E c \in DOMAIN calls : task_insert(c)
    /\ UNCHANGED <<sheetVars, schedVars, statVars>>

TaskSave ==
    /\ \E c \in DOMAIN calls : task_save(c)
    /\ UNCHANGED <<sheetVars, schedVars, statVars>>

NextConcurrent ==
    \/ DiscoverRequest
    \/ TaskBegin
    \/ TaskInsert
    \/ TaskSave

SpecConcurrent == InitDiscover /\ [][NextConcurrent]_vars

\* C26: with no billing event and no usage reset, leads_used of a user never
\* exceeds lead_limit, whatever the interleaving of discover requests and
\* discovery tasks, two requests admitted before either task has inserted a
\* lead included
C26_UsedWithinLimit ==
    \A u \in Users : users[u].leads_used <= users[u].lead_limit

\* every task that was admitted has run to its end
AllFinished ==
    /\ tasks = <<>>
    /\ calls # <<>>
    /\ \A c \in DOMAIN calls : calls[c].pc = "done"

\* leads_used of the user when the first of its tasks loaded it
LoadedFirst(u) ==
    calls[CHOOSE c \in DOMAIN calls :
            /\ calls[c].user_id = u
            /\ \A d \in 1..(c - 1) : calls[d].user_id # u].loaded

\* C27: once all the discovery tasks of a user have finished, whatever their
\* interleaving, the stored leads_used has grown by exactly the number of Lead
\* documents the tasks inserted
C27_NoLostIncrement ==
    AllFinished =>
        \A u \in {calls[c].user_id : c \in DOMAIN calls} :
            users[u].leads_used =
                LoadedFirst(u) + Cardinality({j \in DOMAIN leads : leads[j].user = u})

----------------------------------------------------------------------------
(* Claims about what a failed send has delivered *)

\* C28: a send that EmailService.send_email reports as failed has delivered
\* no message to the SMTP server, and every lead whose message the server
\* accepted has status 'contacted' afterwards, also when the save of the lead
\* or of the usage row fails after the SMTP send
C28_FailedSendDeliversNothing ==
    [][resp'.op = "send" =>
         /\ (resp'.code # 200 => smtp'.delivered = smtp.delivered)
         /\ \A k \in DOMAIN smtp'.delivered :
               leads'[smtp'.delivered[k]].status = "contacted"]_vars

----------------------------------------------------------------------------
(* Command-line tool: the scheduler started again after stop() *)

\* scheduler.py 132-158 with no assumption on the caller: start() looks at
\* self.running only.  self.thread is overwritten; a thread of an earlier
\* start that is still alive runs on with no name left for it (calls holds
\* these threads).
start_again(run_pending_immediately) ==
    IF running THEN
        UNCHANGED <<running, thread, due, stopCall, started, calls>>
    ELSE
        /\ stopCall.pc # "joining"
        /\ running' = TRUE
        /\ IF run_pending_immediately
           THEN /\ started + Cardinality(Jobs) <= MaxStarted
                /\ started' = started + Cardinality(Jobs)
                /\ due' = {}
           ELSE UNCHANGED <<started, due>>
        /\ calls' = IF thread.pc \in {"none", "done"} THEN calls
                    ELSE Append(calls, thread)
        /\ thread' = [pc |-> "check", batch |-> {}, job |-> None]
        /\ stopCall' = NoStop

\* scheduler.py 146-151 in a thread of an earlier start: the same loop over
\* the same self.running and the same job list
run_scheduler_earlier(c) ==
    LET t == calls[c] IN
    \/ /\ t.pc = "check"
       /\ calls' = [calls EXCEPT ![c] =
                        IF running THEN [t EXCEPT !.pc = "pending", !.batch = due]
                        ELSE [t EXCEPT !.pc = "done"]]
       /\ UNCHANGED <<running, thread, due, stopCall, started>>
    \/ /\ t.pc = "pending"
       /\ started < MaxStarted
       /\ \E j \in t.batch :
            calls' = [calls EXCEPT ![c] = [t EXCEPT !.pc = "job", !.job = j,
                                                   !.batch = @ \ {j}]]
       /\ started' = started + 1
       /\ UNCHANGED <<running, thread, due, stopCall>>
    \/ /\ t.pc = "job"
       /\ calls' = [calls EXCEPT ![c] = [t EXCEPT !.pc = "pending", !.job = None]]
       /\ due' = due \ {t.job}
       /\ UNCHANGED <<running, thread, stopCall, started>>
    \/ /\ t.pc = "pending"
       /\ t.batch = {}
       /\ calls' = [calls EXCEPT ![c].pc = "sleep"]
       /\ UNCHANGED <<running, thread, due, stopCall, started>>
    \/ /\ t.pc = "sleep"
       /\ calls' = [calls EXCEPT ![c].pc = "check"]
       /\ UNCHANGED <<running, thread, due, stopCall, started>>

StartAgain ==
    /\ \E run_pending_immediately \in BOOLEAN : start_again(run_pending_immediately)
    /\ UNCHANGED <<backendVars, sheetVars, statVars>>

EarlierLoop ==
    /\ \E c \in DOMAIN calls : run_scheduler_earlier(c)
    /\ UNCHANGED <<backendVars, sheetVars, statVars>>

NextRestart ==
    \/ Due
    \/ StartAgain
    \/ Stop
    \/ Loop
    \/ Join
    \/ EarlierLoop

SpecRestart == InitSched /\ [][NextRestart]_vars

\* C29: after any sequence of start() and stop() calls at most one loop
\* polls: start() while running creates no loop, and the loop of an earlier
\* start, left alive by a stop() whose join timed out, never passes the test
\* of self.running again to poll and execute jobs beside the new loop
C29_OneLoopPolls ==
    [][/\ (running => Len(calls') = Len(calls))
       /\ \A c \in DOMAIN calls :
            ~(calls[c].pc = "check" /\ calls'[c].pc = "pending")]_vars

----------------------------------------------------------------------------
(* Claims about the counters of a run *)

\* C30: in a run that reaches the loop over the leads every lead is counted
\* in exactly one of processed, duplicates and errors: during the loop the
\* three counters and the leads still to come add up to total_leads, and the
\* results a completed run returns have processed + duplicates + errors =
\* total_leads, emails_generated <= total_leads and portfolios_created <=
\* total_leads, whichever steps raised or reported failure
C30_EveryLeadCountedOnce ==
    /\ assistant.pc = "loop" =>
          LET r == assistant.results IN
          /\ r.processed + r.duplicates + r.errors + Len(assistant.leads)
                = r.total_leads
          /\ r.emails_generated <= r.total_leads - Len(assistant.leads)
          /\ r.portfolios_created <= r.total_leads - Len(assistant.leads)
    /\ (report.op = "run" /\ report.success) =>
          LET r == report.results IN
          /\ r.processed + r.duplicates + r.errors = r.total_leads
          /\ r.emails_generated <= r.total_leads
          /\ r.portfolios_created <= r.total_leads

\* a completed run of two leads: one turn raised, the other stored its lead
C30_Witness ==
    /\ report.op = "run"
    /\ report.success
    /\ report.results.total_leads = 2
    /\ report.results.errors = 1
    /\ report.results.processed = 1
    /\ report.results.emails_generated = 2

====
